---- MODULE Spec2Model ----
(***************************************************************************)
(* TermNet core triad: EditEngine (termnet/edit_engine.py) and the         *)
(* Autopilot orchestrator (termnet/autopilot.py).                          *)
(*                                                                         *)
(* Conventions                                                             *)
(*  - a path is a tuple of tokens, "/" and "_" being tokens of their own,  *)
(*    so that str.replace("/", "_") and fnmatch can be computed;           *)
(*  - a file line is a record [txt, nl]: the text without its newline and  *)
(*    whether the line ends with "\n" (readlines keeps the newline);       *)
(*  - a line of a diff text (diff.split("\n")) is a record with a kind k;  *)
(*  - Python lists are sequences, a 0-based index i being i + 1 here.      *)
(***************************************************************************)
EXTENDS FiniteSets, Integers, Sequences, TLC

(***************************************************************************)
(* Bounds of the model                                                     *)
(***************************************************************************)
MaxContentLen == 3
MaxHunkLines == 2
MaxCalls == 2

\* the plan calls looked at in a row
MaxClock == 2

(***************************************************************************)
(* Python list and string primitives                                       *)
(***************************************************************************)
\* a file of the file system: whether it exists and, if so, its lines
NoFile == [exists |-> FALSE, c |-> <<>>]

File(c) == [exists |-> TRUE, c |-> c]

Min(a, b) == IF a < b THEN a ELSE b

Max(a, b) == IF a > b THEN a ELSE b

\* list[lo:hi] for 0-based bounds lo, hi that may be negative or too large
PySlice(s, lo, hi) ==
  LET n  == Len(s)
      l  == IF lo < 0 THEN Max(lo + n, 0) ELSE Min(lo, n)
      h  == IF hi < 0 THEN Max(hi + n, 0) ELSE Min(hi, n)
  IN  IF l >= h THEN <<>> ELSE SubSeq(s, l + 1, h)

\* list.insert(pos, x)
PyInsert(s, pos, x) ==
  LET n == Len(s)
      p == IF pos < 0 THEN Max(pos + n, 0) ELSE Min(pos, n)
  IN  SubSeq(s, 1, p) \o <<x>> \o SubSeq(s, p + 1, n)

\* del list[pos] raises IndexError when the index is out of range
PyDelRaises(s, pos) ==
  LET n == Len(s) IN IF pos < 0 THEN pos + n < 0 ELSE pos >= n

PyDel(s, pos) ==
  LET n == Len(s)
      p == IF pos < 0 THEN pos + n ELSE pos
  IN  SubSeq(s, 1, p) \o SubSeq(s, p + 2, n)

RECURSIVE ReplaceTok(_, _, _)
\* str.replace(a, b) on a tokenised path
ReplaceTok(p, a, b) ==
  IF p = <<>> THEN <<>>
  ELSE <<IF Head(p) = a THEN b ELSE Head(p)>> \o ReplaceTok(Tail(p), a, b)

RECURSIVE FnMatch(_, _)
\* fnmatch.fnmatch(path, pattern): "*" matches any run of characters, "/" included
FnMatch(path, pat) ==
  IF pat = <<>> THEN path = <<>>
  ELSE IF Head(pat) = "*"
       THEN FnMatch(path, Tail(pat)) \/ (path /= <<>> /\ FnMatch(Tail(path), pat))
       ELSE path /= <<>> /\ Head(path) = Head(pat) /\ FnMatch(Tail(path), Tail(pat))

\* the range of a sequence
Range(s) == {s[i] : i \in 1..Len(s)}

(***************************************************************************)
(* Lines of a diff text                                                    *)
(***************************************************************************)
NoPath == <<>>

DevNull == <<"/dev/null">>

DL(k, path, os, oc, ns, nc, txt) ==
  [k |-> k, path |-> path, os |-> os, oc |-> oc, ns |-> ns, nc |-> nc, txt |-> txt]

\* "--- path"
OldHdr(p) == DL("---", p, 0, 0, 0, 0, "")

\* "+++ path"
NewHdr(p) == DL("+++", p, 0, 0, 0, 0, "")

\* "@@ -os,oc +ns,nc @@"; a count of -1 stands for an omitted count
HunkHdr(os, oc, ns, nc) == DL("@@", NoPath, os, oc, ns, nc, "")

\* a line that starts with "@@" and does not match the header pattern
BadHunkHdr == DL("@@bad", NoPath, 0, 0, 0, 0, "")

\* " txt", "-txt", "+txt"
Ctx(t) == DL(" ", NoPath, 0, 0, 0, 0, t)

Del(t) == DL("-", NoPath, 0, 0, 0, 0, t)

Add(t) == DL("+", NoPath, 0, 0, 0, 0, t)

\* the empty string between two "\n" (or after the last one)
EmptyLine == DL("", NoPath, 0, 0, 0, 0, "")

\* any other text
Junk == DL("junk", NoPath, 0, 0, 0, 0, "")

(***************************************************************************)
(* _parse_unified_diff                                                     *)
(***************************************************************************)
NoHunk == <<0, 0>>

\* current_hunk refers to a hunk that is no longer in patches
Detached == <<-1, -1>>

RECURSIVE IndexOfPath(_, _, _)
IndexOfPath(patches, p, i) ==
  IF i > Len(patches) THEN 0
  ELSE IF patches[i].path = p THEN i ELSE IndexOfPath(patches, p, i + 1)

\* patches[current_file] = []
ResetEntry(patches, p) ==
  LET i == IndexOfPath(patches, p, 1)
  IN  IF i = 0 THEN Append(patches, [path |-> p, hunks |-> <<>>])
      ELSE [patches EXCEPT ![i].hunks = <<>>]

ParseStart == [ok |-> TRUE, patches |-> <<>>, cf |-> NoPath, ch |-> NoHunk]

ParseLine(st, line) ==
  IF ~st.ok THEN st
  ELSE IF line.k = "---" THEN st
  ELSE IF line.k = "+++" THEN
    IF line.path = DevNull THEN st
    ELSE [st EXCEPT !.cf = line.path,
                    !.patches = ResetEntry(st.patches, line.path),
                    !.ch = IF st.ch /= NoHunk /\ st.ch /= Detached
                              /\ st.patches[st.ch[1]].path = line.path
                           THEN Detached ELSE st.ch]
  ELSE IF line.k \in {"@@", "@@bad"} THEN
    IF st.cf = NoPath \/ line.k = "@@bad" THEN [st EXCEPT !.ok = FALSE]
    ELSE LET i == IndexOfPath(st.patches, st.cf, 1)
             h == [old_start |-> line.os,
                   old_count |-> IF line.oc = -1 THEN 1 ELSE line.oc,
                   new_start |-> line.ns,
                   new_count |-> IF line.nc = -1 THEN 1 ELSE line.nc,
                   lines |-> <<>>]
         IN  [st EXCEPT !.patches[i].hunks = Append(@, h),
                        !.ch = <<i, Len(st.patches[i].hunks) + 1>>]
  ELSE IF line.k \in {" ", "-", "+", ""} THEN
    IF st.ch = NoHunk \/ st.ch = Detached THEN st
    ELSE [st EXCEPT !.patches[st.ch[1]].hunks[st.ch[2]].lines =
            Append(@, IF line.k = "" THEN [tag |-> " ", txt |-> ""]
                      ELSE [tag |-> line.k, txt |-> line.txt])]
  ELSE st

RECURSIVE ParseFrom(_, _, _)
ParseFrom(st, diff, i) ==
  IF i > Len(diff) THEN st ELSE ParseFrom(ParseLine(st, diff[i]), diff, i + 1)

\* a parser that keeps what it parsed before the ValueError and reports no error
ParseUnifiedDiffPartial(diff) == [ParseFrom(ParseStart, diff, 1) EXCEPT !.ok = TRUE]

\* [ok, patches]: ok = FALSE when a ValueError is raised
ParseUnifiedDiff(diff) == ParseFrom(ParseStart, diff, 1)

Keys(patches) == [i \in 1..Len(patches) |-> patches[i].path]

(***************************************************************************)
(* Paths and configurations                                                *)
(***************************************************************************)
\* os.path.join(repo_path, file_path); repo_path "." is the working directory
JoinPath(repo_path, p) == IF repo_path = <<".">> THEN p ELSE repo_path \o <<"/">> \o p

RECURSIVE LastSlash(_, _)
LastSlash(p, i) == IF i = 0 THEN 0 ELSE IF p[i] = "/" THEN i ELSE LastSlash(p, i - 1)

\* os.path.dirname(p); <<>> is the working directory
DirName(p) == LET i == LastSlash(p, Len(p)) IN IF i = 0 THEN <<>> ELSE SubSeq(p, 1, i - 1)

RECURSIVE Ancestors(_)
\* the directories os.makedirs(d, exist_ok=True) makes exist
Ancestors(d) == IF d = <<>> THEN {<<>>} ELSE {d} \cup Ancestors(DirName(d))

\* _setup_defaults: the guardrails of an engine built without configuration
DefaultGuardrails ==
  [allowed_paths |-> {<<"termnet", "/", "*", "*">>, <<"tests", "/", "*", "*">>,
                      <<"docs", "/", "*", "*">>, <<"scripts", "/", "*", "*">>},
   blocked_paths |-> {<<".git", "/", "*", "*">>, <<"__pycache__", "/", "*", "*">>,
                      <<"*", ".pyc">>, <<"node_modules", "/", "*", "*">>},
   max_total_patch_bytes |-> 50000,
   max_files_per_patch |-> 20]

\* _setup_defaults: conflict_resolution of an engine built without configuration
DefaultConflictResolution == [split_hunks |-> TRUE, backup_on_conflict |-> TRUE]

(***************************************************************************)
(* _check_guardrails                                                       *)
(***************************************************************************)
RECURSIVE SumSeq(_)
SumSeq(s) == IF s = <<>> THEN 0 ELSE Head(s) + SumSeq(Tail(s))

\* len(line) of a hunk line: the prefix character and the text
LineBytes(l) == 1 + Len(l.txt)

HunkBytes(h) == SumSeq([i \in 1..Len(h.lines) |-> LineBytes(h.lines[i])])

TotalBytes(patches) ==
  SumSeq([i \in 1..Len(patches) |->
            SumSeq([j \in 1..Len(patches[i].hunks) |-> HunkBytes(patches[i].hunks[j])])])

MatchesPatterns(p, patterns) == \E pat \in patterns : FnMatch(p, pat)

\* a variant without the blocked_paths rule, to see that C3 depends on it
CheckGuardrailsUnblocked(g, patches) ==
  (IF Len(patches) > g.max_files_per_patch
     THEN {[rule |-> "max_files_per_patch", file_path |-> NoPath]} ELSE {})
  \cup
  (IF TotalBytes(patches) > g.max_total_patch_bytes
     THEN {[rule |-> "max_total_patch_bytes", file_path |-> NoPath]} ELSE {})
  \cup
  {[rule |-> "allowed_paths", file_path |-> patches[i].path] :
     i \in {j \in 1..Len(patches) : ~MatchesPatterns(patches[j].path, g.allowed_paths)}}

\* the set of (rule, file_path) violations; the source builds a list of them
CheckGuardrails(g, patches) ==
  (IF Len(patches) > g.max_files_per_patch
     THEN {[rule |-> "max_files_per_patch", file_path |-> NoPath]} ELSE {})
  \cup
  (IF TotalBytes(patches) > g.max_total_patch_bytes
     THEN {[rule |-> "max_total_patch_bytes", file_path |-> NoPath]} ELSE {})
  \cup
  {[rule |-> "blocked_paths", file_path |-> patches[i].path] :
     i \in {j \in 1..Len(patches) : MatchesPatterns(patches[j].path, g.blocked_paths)}}
  \cup
  {[rule |-> "allowed_paths", file_path |-> patches[i].path] :
     i \in {j \in 1..Len(patches) : ~MatchesPatterns(patches[j].path, g.allowed_paths)}}

(***************************************************************************)
(* _hunk_already_applied, _apply_single_hunk, _apply_hunks_to_content      *)
(***************************************************************************)
\* the texts of the context and added lines of a hunk, in order
ExpectedLines(h) ==
  LET keep == SelectSeq(h.lines, LAMBDA l : l.tag \in {" ", "+"})
  IN  [i \in 1..Len(keep) |-> keep[i].txt]

\* line.rstrip("\n") of every line of a list of file lines
Texts(content) == [i \in 1..Len(content) |-> content[i].txt]

HunkAlreadyApplied(content, h) ==
  LET expected   == ExpectedLines(h)
      start_line == h.new_start - 1
      end_line   == start_line + Len(expected)
  IN  IF expected = <<>> THEN TRUE
      ELSE IF end_line > Len(content) THEN FALSE
      ELSE Texts(PySlice(content, start_line, end_line)) = expected

\* one line of the loop of _apply_single_hunk; st = [c, pos, exc]
ApplyHunkLine(st, l) ==
  IF st.exc THEN st
  ELSE IF l.tag = " " THEN [st EXCEPT !.pos = @ + 1]
  ELSE IF l.tag = "-" THEN
    IF st.pos < Len(st.c)
    THEN IF PyDelRaises(st.c, st.pos) THEN [st EXCEPT !.exc = TRUE]
         ELSE [st EXCEPT !.c = PyDel(@, st.pos)]
    ELSE st
  ELSE [st EXCEPT !.c = PyInsert(@, st.pos, [txt |-> l.txt, nl |-> TRUE]),
                  !.pos = @ + 1]

RECURSIVE ApplyHunkLines(_, _, _)
ApplyHunkLines(st, lines, i) ==
  IF i > Len(lines) THEN st ELSE ApplyHunkLines(ApplyHunkLine(st, lines[i]), lines, i + 1)

\* [c, exc]: the new content, or exc = TRUE when an IndexError is raised
ApplySingleHunk(content, h) ==
  LET st == ApplyHunkLines([c |-> content, pos |-> h.old_start - 1, exc |-> FALSE],
                           h.lines, 1)
  IN  [c |-> st.c, exc |-> st.exc]

RECURSIVE InsertDesc(_, _)
\* insert h into a list sorted by old_start descending, after its equals
InsertDesc(sorted, h) ==
  IF sorted = <<>> THEN <<h>>
  ELSE IF Head(sorted).old_start >= h.old_start
       THEN <<Head(sorted)>> \o InsertDesc(Tail(sorted), h)
       ELSE <<h>> \o sorted

RECURSIVE SortHunksDesc(_, _, _)
\* sorted(hunks, key=old_start, reverse=True): stable
SortHunksDesc(acc, hunks, i) ==
  IF i > Len(hunks) THEN acc ELSE SortHunksDesc(InsertDesc(acc, hunks[i]), hunks, i + 1)

RECURSIVE ApplySorted(_, _, _)
ApplySorted(r, hunks, i) ==
  IF i > Len(hunks) \/ r.exc THEN r
  ELSE ApplySorted(ApplySingleHunk(r.c, hunks[i]), hunks, i + 1)

ApplyHunksToContent(content, hunks) ==
  ApplySorted([c |-> content, exc |-> FALSE], SortHunksDesc(<<>>, hunks, 1), 1)

(***************************************************************************)
(* The file system: w = [files, dirs, bdir]                                *)
(*   files  path -> file           (paths relative to the working          *)
(*                                  directory, or absolute)                *)
(*   dirs   the directories that exist (<<>> is the working directory)     *)
(*   bdir   the directory self._backup_dir names: [exists, files]          *)
(* fault names one file on which an operation fails during the call:       *)
(* [kind, path] with kind                                                  *)
(*   "read"    every read of the file raises (permission denied)           *)
(*   "decode"  reading it as UTF-8 text raises, copying it does not        *)
(*   "write"   every write to the file raises                              *)
(*   "none"    no operation fails                                          *)
(***************************************************************************)
NoFault == [kind |-> "none", path |-> NoPath]

NoBackupDir == [exists |-> FALSE, files |-> [n \in {} |-> NoFile]]

RECURSIVE JoinLines(_)
\* f.writelines(content) followed by f.readlines(): a line without "\n" runs
\* into the next one
JoinLines(content) ==
  IF content = <<>> THEN <<>>
  ELSE LET l == Head(content) rest == JoinLines(Tail(content))
       IN  IF l.nl THEN <<l>> \o rest
           ELSE IF rest = <<>> THEN (IF l.txt = "" THEN <<>> ELSE <<l>>)
           ELSE <<[txt |-> l.txt \o Head(rest).txt, nl |-> Head(rest).nl]>> \o Tail(rest)

\* open(p, "r", encoding="utf-8") ... readlines() raises
ReadRaises(fault, p) == fault.kind \in {"read", "decode"} /\ fault.path = p

\* shutil.copy2(p, ...) raises
CopyRaises(fault, p) == fault.kind = "read" /\ fault.path = p

\* open(p, "w") or shutil.copy2(..., p) raises: p cannot be written or its
\* directory does not exist

WriteRaises(w, fault, p) ==
  (fault.kind = "write" /\ fault.path = p) \/ DirName(p) \notin w.dirs

\* the name of the backup copy of file_path, and the path it is restored to
BackupName(p) == ReplaceTok(p, "/", "_")

OriginalPath(name) == ReplaceTok(name, "_", "/")

RECURSIVE BackupFiles(_, _, _, _)
\* the loop of _create_backup; r = [files, exc]
BackupFiles(w, r, keys, fault) ==
  IF keys = <<>> \/ r.exc THEN r
  ELSE LET fp == Head(keys)
       IN  IF ~w.files[fp].exists THEN BackupFiles(w, r, Tail(keys), fault)
           ELSE IF CopyRaises(fault, fp) THEN [r EXCEPT !.exc = TRUE]
           ELSE BackupFiles(w,
                  [r EXCEPT !.files = [n \in DOMAIN r.files \cup {BackupName(fp)} |->
                                         IF n = BackupName(fp) THEN w.files[fp]
                                         ELSE r.files[n]]],
                  Tail(keys), fault)

\* _create_backup: [w, exc, made]
CreateBackup(w, backup_on_conflict, keys, fault) ==
  IF ~backup_on_conflict THEN [w |-> w, exc |-> FALSE, made |-> FALSE]
  ELSE LET r == BackupFiles(w, [files |-> NoBackupDir.files, exc |-> FALSE], keys, fault)
       IN  [w |-> [w EXCEPT !.bdir = [exists |-> TRUE, files |-> r.files]],
            exc |-> r.exc, made |-> TRUE]

RECURSIVE RestoreFiles(_, _, _)
\* the loop of _restore_backup over os.listdir in the order names; r = [w, exc]
RestoreFiles(r, names, fault) ==
  IF names = <<>> \/ r.exc THEN r
  ELSE LET orig == OriginalPath(Head(names))
       IN  IF WriteRaises(r.w, fault, orig) THEN [r EXCEPT !.exc = TRUE]
           ELSE RestoreFiles(
                  [r EXCEPT !.w.files[orig] = r.w.bdir.files[Head(names)]],
                  Tail(names), fault)

\* _restore_backup: [w, exc]; names orders every name os.listdir may return
RestoreBackup(w, names, fault) ==
  IF ~w.bdir.exists THEN [w |-> w, exc |-> FALSE]
  ELSE LET listed == SelectSeq(names, LAMBDA n : n \in DOMAIN w.bdir.files)
           r      == RestoreFiles([w |-> w, exc |-> FALSE], listed, fault)
       IN  IF r.exc THEN r ELSE [w |-> [r.w EXCEPT !.bdir = NoBackupDir], exc |-> FALSE]

(***************************************************************************)
(* _check_idempotency, _apply_patches, _retry_with_split_hunks             *)
(***************************************************************************)
CheckIdempotency(w, repo_path, patches, fault) ==
  \A i \in 1..Len(patches) :
    LET full == JoinPath(repo_path, patches[i].path)
    IN  /\ w.files[full].exists
        /\ ~ReadRaises(fault, full)
        /\ \A j \in 1..Len(patches[i].hunks) :
             HunkAlreadyApplied(w.files[full].c, patches[i].hunks[j])

\* the body of the loop of _apply_patches for one file; r = [w, conflicts]
ApplyPatchToFile(r, repo_path, entry, fault) ==
  LET full == JoinPath(repo_path, entry.path)
      bad  == [r EXCEPT !.conflicts =
                 Append(@, [path |-> entry.path, kind |-> "apply_error", hunk |-> 0])]
  IN  IF r.w.files[full].exists /\ ReadRaises(fault, full) THEN bad
      ELSE LET content == IF r.w.files[full].exists THEN r.w.files[full].c ELSE <<>>
               new     == ApplyHunksToContent(content, entry.hunks)
               w1      == [r.w EXCEPT !.dirs = @ \cup Ancestors(DirName(full))]
           IN  IF new.exc THEN bad
               ELSE IF WriteRaises(w1, fault, full) THEN [bad EXCEPT !.w = w1]
               ELSE [r EXCEPT !.w = [w1 EXCEPT !.files[full] = File(JoinLines(new.c))]]

RECURSIVE ApplyPatchesFrom(_, _, _, _, _)
ApplyPatchesFrom(r, repo_path, patches, fault, i) ==
  IF i > Len(patches) THEN r
  ELSE ApplyPatchesFrom(ApplyPatchToFile(r, repo_path, patches[i], fault),
                        repo_path, patches, fault, i + 1)

\* _apply_patches: [w, conflicts]
ApplyPatches(w, repo_path, patches, fault) ==
  ApplyPatchesFrom([w |-> w, conflicts |-> <<>>], repo_path, patches, fault, 1)

\* _try_split_hunk_application: [w, ok]; the file is opened relative to the
\* working directory
TrySplitHunkApplication(w, file_path, h, fault) ==
  IF ~w.files[file_path].exists \/ ReadRaises(fault, file_path)
  THEN [w |-> w, ok |-> FALSE]
  ELSE LET new == ApplySingleHunk(w.files[file_path].c, h)
       IN  IF new.exc \/ WriteRaises(w, fault, file_path) THEN [w |-> w, ok |-> FALSE]
           ELSE [w |-> [w EXCEPT !.files[file_path] = File(JoinLines(new.c))],
                 ok |-> TRUE]

RECURSIVE RetryFrom(_, _, _, _, _)
\* _retry_with_split_hunks: only conflicts of the form "path:hunkN" are retried;
\* r = [w, resolved]
RetryFrom(r, patches, conflicts, fault, i) ==
  IF i > Len(conflicts) THEN r
  ELSE LET c  == conflicts[i]
           fi == IndexOfPath(patches, c.path, 1)
       IN  IF c.kind = "hunk" /\ fi /= 0 /\ c.hunk - 1 < Len(patches[fi].hunks)
           THEN LET t == TrySplitHunkApplication(r.w, c.path,
                                                 patches[fi].hunks[c.hunk], fault)
                IN  RetryFrom([w |-> t.w,
                               resolved |-> IF t.ok THEN r.resolved \cup {c}
                                            ELSE r.resolved],
                              patches, conflicts, fault, i + 1)
           ELSE RetryFrom(r, patches, conflicts, fault, i + 1)

RetryWithSplitHunks(w, patches, conflicts, fault) ==
  RetryFrom([w |-> w, resolved |-> {}], patches, conflicts, fault, 1)

(***************************************************************************)
(* apply_patch                                                             *)
(***************************************************************************)
\* an EditResult; files_touched is kept as the set of its paths; made_backup
\* records whether the call made a backup directory
Result(status, touched, idem, conflicts, made) ==
  [status |-> status, files_touched |-> touched, idempotent |-> idem,
   conflicts |-> conflicts, made_backup |-> made,
   total_additions |-> 0, total_deletions |-> 0]

\* no EditResult: an exception left the call
Raised(made) == Result("raised", {}, FALSE, <<>>, made)

\* _apply_patches_with_retry: [w, res]; names is the order of os.listdir
ApplyPatchesWithRetry(w, cfg, patches, fault, names) ==
  LET keys == Keys(patches)
      b    == CreateBackup(w, cfg.conflict_resolution.backup_on_conflict, keys, fault)
  IN  IF b.exc THEN [w |-> b.w, res |-> Raised(b.made)]
      ELSE
      LET a == ApplyPatches(b.w, cfg.repo_path, patches, fault)
      IN  IF a.conflicts = <<>>
          THEN [w |-> a.w, res |-> Result("success", Range(keys), FALSE, <<>>, b.made)]
          ELSE
          LET y   == IF cfg.conflict_resolution.split_hunks
                     THEN RetryWithSplitHunks(a.w, patches, a.conflicts, fault)
                     ELSE [w |-> a.w, resolved |-> {}]
              rem == SelectSeq(a.conflicts, LAMBDA c : c \notin y.resolved)
          IN  IF cfg.conflict_resolution.split_hunks /\ rem = <<>>
              THEN [w |-> y.w, res |-> Result("success", Range(keys), FALSE, <<>>, b.made)]
              ELSE
              LET r1 == RestoreBackup(y.w, names, fault)
              IN  IF ~r1.exc
                  THEN [w |-> r1.w,
                        res |-> Result("conflict", Range(keys), FALSE, a.conflicts, b.made)]
                  ELSE \* except Exception: restore again, outside any handler
                  LET r2 == RestoreBackup(r1.w, names, fault)
                  IN  IF r2.exc THEN [w |-> r2.w, res |-> Raised(b.made)]
                      ELSE [w |-> r2.w,
                            res |-> Result("error", Range(keys), FALSE, <<>>, b.made)]

\* the dry-run branch of apply_patch: some file cannot be read or some hunk raises
DryRunConflicts(w, repo_path, patches, fault) ==
  \E i \in 1..Len(patches) :
    LET full == JoinPath(repo_path, patches[i].path)
    IN  IF w.files[full].exists
        THEN ReadRaises(fault, full)
             \/ ApplyHunksToContent(w.files[full].c, patches[i].hunks).exc
        ELSE ApplyHunksToContent(<<>>, patches[i].hunks).exc

\* a variant that writes in a dry run too, to see that C5 depends on the
\* dry_run branch
ApplyPatchCallWriting(w, cfg, diff, dry_run, fault, names) ==
  LET parsed  == ParseUnifiedDiff(diff)
      patches == parsed.patches
  IN  IF ~parsed.ok THEN [w |-> w, res |-> Result("error", {}, FALSE, <<>>, FALSE)]
      ELSE IF CheckGuardrails(cfg.write_guardrails, patches) /= {}
      THEN [w |-> w, res |-> Result("blocked", {}, FALSE, <<>>, FALSE)]
      ELSE IF CheckIdempotency(w, cfg.repo_path, patches, fault)
      THEN [w |-> w, res |-> Result("success", Range(Keys(patches)), TRUE, <<>>, FALSE)]
      ELSE ApplyPatchesWithRetry(w, cfg, patches, fault, names)

\* a variant that simulates a dry run before it looks whether the patch is
\* already applied
ApplyPatchCallDryRunFirst(w, cfg, diff, dry_run, fault, names) ==
  LET parsed  == ParseUnifiedDiff(diff)
      patches == parsed.patches
  IN  IF ~parsed.ok THEN [w |-> w, res |-> Result("error", {}, FALSE, <<>>, FALSE)]
      ELSE IF CheckGuardrails(cfg.write_guardrails, patches) /= {}
      THEN [w |-> w, res |-> Result("blocked", {}, FALSE, <<>>, FALSE)]
      ELSE IF dry_run
      THEN [w |-> w,
            res |-> Result(IF DryRunConflicts(w, cfg.repo_path, patches, fault)
                           THEN "conflict" ELSE "success",
                           Range(Keys(patches)), FALSE, <<>>, FALSE)]
      ELSE IF CheckIdempotency(w, cfg.repo_path, patches, fault)
      THEN [w |-> w, res |-> Result("success", Range(Keys(patches)), TRUE, <<>>, FALSE)]
      ELSE ApplyPatchesWithRetry(w, cfg, patches, fault, names)

\* apply_patch(diff, dry_run): [w, res]
ApplyPatchCall(w, cfg, diff, dry_run, fault, names) ==
  LET parsed  == ParseUnifiedDiff(diff)
      patches == parsed.patches
  IN  IF ~parsed.ok THEN [w |-> w, res |-> Result("error", {}, FALSE, <<>>, FALSE)]
      ELSE IF CheckGuardrails(cfg.write_guardrails, patches) /= {}
      THEN [w |-> w, res |-> Result("blocked", {}, FALSE, <<>>, FALSE)]
      ELSE IF CheckIdempotency(w, cfg.repo_path, patches, fault)
      THEN [w |-> w, res |-> Result("success", Range(Keys(patches)), TRUE, <<>>, FALSE)]
      ELSE IF dry_run
      THEN [w |-> w,
            res |-> Result(IF DryRunConflicts(w, cfg.repo_path, patches, fault)
                           THEN "conflict" ELSE "success",
                           Range(Keys(patches)), FALSE, <<>>, FALSE)]
      ELSE ApplyPatchesWithRetry(w, cfg, patches, fault, names)

(***************************************************************************)
(* get_patch_preview                                                       *)
(***************************************************************************)
\* the number of hunk lines of the patch with the given prefix
CountTag(patches, tag) ==
  SumSeq([i \in 1..Len(patches) |->
            SumSeq([j \in 1..Len(patches[i].hunks) |->
                      Len(SelectSeq(patches[i].hunks[j].lines,
                                    LAMBDA l : l.tag = tag))])])

\* get_patch_preview(diff): the returned dictionary, as a result record
PatchPreview(w, cfg, diff, fault) ==
  LET parsed  == ParseUnifiedDiff(diff)
      patches == parsed.patches
      unread  == \E i \in 1..Len(patches) :
                   LET full == JoinPath(cfg.repo_path, patches[i].path)
                   IN  w.files[full].exists /\ ReadRaises(fault, full)
  IN  IF ~parsed.ok \/ unread THEN Result("error", {}, FALSE, <<>>, FALSE)
      ELSE [Result(IF CheckGuardrails(cfg.write_guardrails, patches) /= {}
                   THEN "blocked" ELSE "success",
                   Range(Keys(patches)),
                   CheckIdempotency(w, cfg.repo_path, patches, fault), <<>>, FALSE)
              EXCEPT !.total_additions = CountTag(patches, "+"),
                     !.total_deletions = CountTag(patches, "-")]

(***************************************************************************)
(* WorkPlanner, as far as Autopilot uses it                                *)
(***************************************************************************)
\* a goal: whether it is a str, the keywords _decompose_goal finds in it,
\* and goal.lower().replace(" ", "-")[:30]
Goal(is_str, words, slug) == [is_str |-> is_str, words |-> words, slug |-> slug]

TaskNode(id, dependencies, risk, estimated_files) ==
  [id |-> id, dependencies |-> dependencies, risk |-> risk,
   estimated_files |-> estimated_files]

\* the tasks _decompose_goal appends before validate_changes
EmittedTasks(goal, repo_files) ==
  LET first == <<TaskNode("analyze_requirements", <<>>, "low",
                          <<(<<"docs", "/", "analysis.md">>)>>)>>
      tests == IF "test" \in goal.words
               THEN <<TaskNode("implement_tests", <<"analyze_requirements">>, "low",
                               <<(<<"tests", "/">>)>>)>>
               ELSE <<>>
      fix   == IF "fix" \in goal.words
               THEN <<TaskNode("fix_implementation", <<"analyze_requirements">>,
                               "medium", PySlice(repo_files, 0, 3))>>
               ELSE <<>>
      feat  == IF "add" \in goal.words
               THEN <<TaskNode("implement_feature", <<"analyze_requirements">>, "high",
                               <<(<<"termnet", "/">>), (<<"tests", "/">>)>>)>>
               ELSE <<>>
  IN  first \o tests \o fix \o feat

\* the validate_changes task with the ids of `tasks` as its dependencies
ValidateChanges(tasks) ==
  TaskNode("validate_changes", [i \in 1..Len(tasks) |-> tasks[i].id], "medium",
           <<(<<"docs", "/">>), (<<"tests", "/">>)>>)

\* a variant in which validate_changes is appended before its dependencies
\* are listed, so that it depends on itself: C19 depends on the order
DecomposeGoalSelfDependent(goal, repo_files, max_tasks) ==
  LET body == EmittedTasks(goal, repo_files)
      last == ValidateChanges(Tail(body) \o <<[id |-> "validate_changes"]>>)
  IN  PySlice(body \o <<last>>, 0, max_tasks)

\* a variant in which validate_changes depends on tasks instead of
\* tasks[1:]: C20 depends on the slice
DecomposeGoalFromFirst(goal, repo_files, max_tasks) ==
  LET body == EmittedTasks(goal, repo_files)
  IN  PySlice(body \o <<ValidateChanges(body)>>, 0, max_tasks)

\* a variant that validates only when an implementation task was emitted:
\* C21 depends on validate_changes being appended unconditionally
DecomposeGoalValidatingSome(goal, repo_files, max_tasks) ==
  LET body == EmittedTasks(goal, repo_files)
      all  == IF Len(body) > 1 THEN body \o <<ValidateChanges(Tail(body))>> ELSE body
  IN  PySlice(all, 0, max_tasks)

\* a variant that keeps the last max_tasks tasks instead of the first:
\* C22 depends on the side the slice drops from
DecomposeGoalKeepingLast(goal, repo_files, max_tasks) ==
  LET body == EmittedTasks(goal, repo_files)
      all  == body \o <<ValidateChanges(Tail(body))>>
  IN  PySlice(all, Max(Len(all) - max_tasks, 0), Len(all))

\* WorkPlanner._decompose_goal: goal.lower() raises unless goal is a str
DecomposeGoal(goal, repo_files, max_tasks) ==
  LET body == EmittedTasks(goal, repo_files)
  IN  PySlice(body \o <<ValidateChanges(Tail(body))>>, 0, max_tasks)

RECURSIVE EdgesOf(_)
\* WorkPlanner._build_task_graph: one edge per dependency, in task order
EdgesOf(tasks) ==
  IF tasks = <<>> THEN <<>>
  ELSE LET t == Head(tasks)
       IN  [i \in 1..Len(t.dependencies) |-> [from |-> t.dependencies[i], to |-> t.id]]
             \o EdgesOf(Tail(tasks))

\* WorkPlanner.plan: the task graph and its metadata
Plan(goal, repo_files, max_tasks) ==
  LET tasks == DecomposeGoal(goal, repo_files, max_tasks)
  IN  [nodes |-> tasks, edges |-> EdgesOf(tasks), total_tasks |-> Len(tasks)]

NoPlan == [nodes |-> <<>>, edges |-> <<>>, total_tasks |-> 0]

RECURSIVE Relax(_, _, _)
\* the inner loop of Kahn's algorithm over graph[current]
Relax(queue, in_degree, neighbors) ==
  IF neighbors = <<>> THEN [queue |-> queue, in_degree |-> in_degree]
  ELSE LET n == Head(neighbors)
           d == in_degree[n] - 1
       IN  Relax(IF d = 0 THEN Append(queue, n) ELSE queue,
                 [in_degree EXCEPT ![n] = d], Tail(neighbors))

RECURSIVE Kahn(_, _, _, _)
Kahn(queue, in_degree, edges, result) ==
  IF queue = <<>> THEN result
  ELSE LET current == Head(queue)
           outs    == SelectSeq(edges, LAMBDA e : e.from = current)
           step    == Relax(Tail(queue), in_degree,
                            [i \in 1..Len(outs) |-> outs[i].to])
       IN  Kahn(step.queue, step.in_degree, edges, Append(result, current))

\* a variant whose queue starts with every node, whatever its in-degree:
\* C18 depends on the filter
TopologicalSortUnfiltered(nodes, edges) ==
  LET ids       == [i \in 1..Len(nodes) |-> nodes[i].id]
      in_degree == [n \in Range(ids) |->
                      Len(SelectSeq(edges, LAMBDA e : e.to = n))]
  IN  Kahn(ids, in_degree, edges, <<>>)

\* WorkPlanner._topological_sort
TopologicalSort(nodes, edges) ==
  LET ids       == [i \in 1..Len(nodes) |-> nodes[i].id]
      in_degree == [n \in Range(ids) |->
                      Len(SelectSeq(edges, LAMBDA e : e.to = n))]
  IN  Kahn(SelectSeq(ids, LAMBDA n : in_degree[n] = 0), in_degree, edges, <<>>)

NodeOf(nodes, id) == nodes[CHOOSE i \in 1..Len(nodes) : nodes[i].id = id]

\* WorkPlanner(max_tasks, seed): a seed is [given, value], None being not
\* given; `seed or 42` takes 42 for None and for 0
DefaultSeed == 42

WorkPlanner(max_tasks, seed) ==
  [max_tasks |-> max_tasks,
   seed      |-> IF seed.given /\ seed.value /= 0 THEN seed.value ELSE DefaultSeed]

\* sorted(xs), as the number of times each element occurs: two lists have
\* the same sorted list exactly when they have the same counts
Sorted(xs) == [x \in Range(xs) |-> Cardinality({i \in 1..Len(xs) : xs[i] = x})]

RepoIntel(fs, symbols) == [files |-> fs, symbols |-> symbols]

\* WorkPlanner._hash_inputs: the digest of the goal, the seed and the sorted
\* files and symbols, as the tuple that is hashed
HashInputs(self, goal, repo_intel) ==
  <<goal, self.seed, Sorted(repo_intel.files), Sorted(repo_intel.symbols)>>

RiskScore(risk) ==
  CASE risk = "low" -> 1 [] risk = "medium" -> 3 [] risk = "high" -> 5 [] OTHER -> 1

\* WorkPlanner._estimate_complexity
EstimateComplexity(tasks) ==
  LET total_score == SumSeq([i \in 1..Len(tasks) |-> RiskScore(tasks[i].risk)])
  IN  IF total_score <= 5 THEN "low"
      ELSE IF total_score <= 15 THEN "medium" ELSE "high"

\* a variant whose plan_hash also digests the time of the call: C17 depends
\* on the hash taking only the inputs
PlanAtStamped(self, goal, repo_intel, now) ==
  LET g == Plan(goal, repo_intel.files, self.max_tasks)
  IN  [nodes |-> g.nodes, edges |-> g.edges, total_tasks |-> g.total_tasks,
       goal |-> goal, plan_hash |-> <<HashInputs(self, goal, repo_intel), now>>,
       created_at |-> now, estimated_complexity |-> EstimateComplexity(g.nodes)]

\* WorkPlanner.plan called at the time `now`: the graph with all its metadata
PlanAt(self, goal, repo_intel, now) ==
  LET g == Plan(goal, repo_intel.files, self.max_tasks)
  IN  [nodes |-> g.nodes, edges |-> g.edges, total_tasks |-> g.total_tasks,
       goal |-> goal, plan_hash |-> HashInputs(self, goal, repo_intel),
       created_at |-> now, estimated_complexity |-> EstimateComplexity(g.nodes)]

(***************************************************************************)
(* Python values and JSON documents, as far as a task graph needs them.    *)
(* A value is [k, v]: k the type, v the content; the text of a str and the *)
(* number of an int are wrapped in a tuple.                                *)
(***************************************************************************)
PyStr(text) == [k |-> "str", v |-> <<text>>]

PyInt(n) == [k |-> "int", v |-> <<n>>]

PyList(items) == [k |-> "list", v |-> items]

PyTuple(items) == [k |-> "tuple", v |-> items]

\* a dict: its items <<key, value>> in insertion order
PyDict(items) == [k |-> "dict", v |-> items]

\* an object json has no encoding for, such as a datetime
PyObject(what) == [k |-> "object", v |-> <<what>>]

RECURSIVE PyEq(_, _)
\* a == b of Python: lists compare in order, dicts whatever the order of
\* their keys, and a tuple is never equal to a list
PyEq(a, b) ==
  /\ a.k = b.k
  /\ CASE a.k \in {"list", "tuple"} ->
            /\ Len(a.v) = Len(b.v)
            /\ \A i \in 1..Len(a.v) : PyEq(a.v[i], b.v[i])
       [] a.k = "dict" ->
            /\ Len(a.v) = Len(b.v)
            /\ \A i \in 1..Len(a.v) :
                 \E j \in 1..Len(b.v) :
                   PyEq(a.v[i][1], b.v[j][1]) /\ PyEq(a.v[i][2], b.v[j][2])
       [] OTHER -> a.v = b.v

RECURSIVE JsonEncodable(_)
\* json.dumps(x) does not raise TypeError
JsonEncodable(x) ==
  CASE x.k \in {"str", "int"}    -> TRUE
    [] x.k \in {"list", "tuple"} -> \A i \in 1..Len(x.v) : JsonEncodable(x.v[i])
    [] x.k = "dict" ->
         \A i \in 1..Len(x.v) :
           x.v[i][1].k \in {"str", "int"} /\ JsonEncodable(x.v[i][2])
    [] OTHER -> FALSE

RECURSIVE JsonEncode(_)
\* the document json.dumps(x) writes: lists and tuples become arrays, the
\* keys of a dict become strings
JsonEncode(x) ==
  CASE x.k = "str" -> [k |-> "string", v |-> x.v]
    [] x.k = "int" -> [k |-> "number", v |-> x.v]
    [] x.k \in {"list", "tuple"} ->
         [k |-> "array", v |-> [i \in 1..Len(x.v) |-> JsonEncode(x.v[i])]]
    [] x.k = "dict" ->
         [k |-> "object",
          v |-> [i \in 1..Len(x.v) |->
                   <<[k |-> "string", v |-> x.v[i][1].v], JsonEncode(x.v[i][2])>>]]

RECURSIVE JsonDecode(_)
\* the value json.loads reads from a document: arrays become lists
JsonDecode(j) ==
  CASE j.k = "string" -> [k |-> "str", v |-> j.v]
    [] j.k = "number" -> [k |-> "int", v |-> j.v]
    [] j.k = "array" ->
         [k |-> "list", v |-> [i \in 1..Len(j.v) |-> JsonDecode(j.v[i])]]
    [] j.k = "object" ->
         [k |-> "dict",
          v |-> [i \in 1..Len(j.v) |->
                   <<[k |-> "str", v |-> j.v[i][1].v], JsonDecode(j.v[i][2])>>]]

\* asdict(task): the fields of a TaskNode, the lists it was built with
NodeValue(task) ==
  PyDict(<<
    <<PyStr("id"), PyStr(task.id)>>,
    <<PyStr("description"), PyStr(<<"description", task.id>>)>>,
    <<PyStr("dependencies"),
      PyList([i \in 1..Len(task.dependencies) |-> PyStr(task.dependencies[i])])>>,
    <<PyStr("risk"), PyStr(task.risk)>>,
    <<PyStr("done_criteria"), PyList(<<PyStr(<<"criterion", task.id>>)>>)>>,
    <<PyStr("estimated_files"),
      PyList([i \in 1..Len(task.estimated_files) |-> PyStr(task.estimated_files[i])])>> >>)

EdgeValue(e) ==
  PyDict(<< <<PyStr("from"), PyStr(e.from)>>, <<PyStr("to"), PyStr(e.to)>> >>)

\* a variant whose created_at is the datetime itself, not its isoformat():
\* C23 depends on every value of the graph having a JSON encoding
GraphValueWithDatetime(out) ==
  PyDict(<<
    <<PyStr("nodes"),
      PyDict([i \in 1..Len(out.nodes) |->
                <<PyStr(out.nodes[i].id), NodeValue(out.nodes[i])>>])>>,
    <<PyStr("edges"), PyList([i \in 1..Len(out.edges) |-> EdgeValue(out.edges[i])])>>,
    <<PyStr("goal"), PyStr(out.goal)>>,
    <<PyStr("plan_hash"), PyStr(out.plan_hash)>>,
    <<PyStr("created_at"), PyObject(out.created_at)>>,
    <<PyStr("estimated_complexity"), PyStr(out.estimated_complexity)>>,
    <<PyStr("total_tasks"), PyInt(out.total_tasks)>> >>)

\* the dict plan returns: _build_task_graph's nodes and edges, then the
\* metadata plan adds
GraphValue(out) ==
  PyDict(<<
    <<PyStr("nodes"),
      PyDict([i \in 1..Len(out.nodes) |->
                <<PyStr(out.nodes[i].id), NodeValue(out.nodes[i])>>])>>,
    <<PyStr("edges"), PyList([i \in 1..Len(out.edges) |-> EdgeValue(out.edges[i])])>>,
    <<PyStr("goal"), PyStr(out.goal)>>,
    <<PyStr("plan_hash"), PyStr(out.plan_hash)>>,
    <<PyStr("created_at"), PyStr(out.created_at)>>,
    <<PyStr("estimated_complexity"), PyStr(out.estimated_complexity)>>,
    <<PyStr("total_tasks"), PyInt(out.total_tasks)>> >>)

\* TestCaseSpec(name, description, command, expected_outcome, risk_level);
\* a name is the list of the words that "_" joins
TestCaseSpec(name, command, expected_outcome, risk_level) ==
  [name |-> name, command |-> command, expected_outcome |-> expected_outcome,
   risk_level |-> risk_level]

\* WorkPlanner._generate_test_command: "test" in task.id, then "implement"
\* in task.id (fix_implementation contains it)
GenerateTestCommand(task) ==
  IF task.id = "implement_tests" THEN <<"pytest", "-k", task.id>>
  ELSE IF task.id \in {"fix_implementation", "implement_feature"}
  THEN <<"pytest", "--tb=short">>
  ELSE <<"placeholder">>

\* the specs test_plan appends for one node when `integrated` says which
\* risks get an integration test
SpecsOfTask(task, integrated) ==
  <<TestCaseSpec(<<"test", task.id, "completion">>, GenerateTestCommand(task),
                 "success", task.risk)>>
    \o (IF task.risk \in integrated
        THEN <<TestCaseSpec(<<"test", task.id, "integration">>,
                            <<"pytest", "-k", "integration">>, "all_pass", "high")>>
        ELSE <<>>)

RECURSIVE SpecsOfTasks(_, _)
SpecsOfTasks(nodes, integrated) ==
  IF nodes = <<>> THEN <<>>
  ELSE SpecsOfTask(Head(nodes), integrated) \o SpecsOfTasks(Tail(nodes), integrated)

OverallSpec ==
  TestCaseSpec(<<"test", "overall", "goal", "completion">>, <<"pytest", "-q">>,
               "all_pass", "medium")

\* a variant that also gives medium-risk tasks an integration test: C24
\* depends on the test risk == "high"
TestPlanIntegratingMedium(out) ==
  SpecsOfTasks(out.nodes, {"medium", "high"}) \o <<OverallSpec>>

\* WorkPlanner.test_plan(task_graph)
TestPlan(out) == SpecsOfTasks(out.nodes, {"high"}) \o <<OverallSpec>>

(***************************************************************************)
(* The repository Autopilot works on: working tree, git, backups           *)
(*   tree.file    the tracked Python file of the repository                *)
(*   tree.cache   whether .cache/code_index/repo_intel.json is in the tree *)
(*   git.branch   the branch checked out; every branch is at HeadSha       *)
(***************************************************************************)
Content(exists, edited, marks) == [exists |-> exists, edited |-> edited, marks |-> marks]

\* the content of the tracked file in the commit every branch points at
HeadContent == Content(TRUE, FALSE, {})

NoContent == Content(FALSE, FALSE, {})

HeadSha == "sha0"

Main == <<"main">>

BranchPrefix == "termnet/autopilot/"

\* GitClient.is_clean: git status --porcelain prints nothing
IsClean(env, tree) ==
  /\ tree.file = HeadContent
  /\ ~(tree.cache /\ ~env.cache_ignored)

\* GitClient.create_branch: checkout -b <prefix><name> [origin/]<base>
CreateBranch(git, name, base) ==
  LET branch_name == <<BranchPrefix, name>>
      ok          == branch_name \notin git.branches
                       /\ (git.has_origin \/ base \in git.branches)
  IN  [success |-> ok,
       git     |-> IF ok THEN [git EXCEPT !.branch = branch_name,
                                          !.branches = @ \cup {branch_name}]
                   ELSE git]

\* GitClient.commit with files = None and require_clean_working_tree (the
\* default, which Autopilot keeps): refused when the working tree is not
\* clean, and with a clean tree git commit finds nothing to commit
Commit(env, tree) ==
  IF ~IsClean(env, tree)
  THEN [success |-> FALSE, message |-> "Working tree is not clean"]
  ELSE [success |-> FALSE, message |-> "Command completed: commit"]

\* git checkout <branch>: every branch is at HeadSha, local changes are kept
Checkout(git, branch) ==
  IF branch \in git.branches THEN [git EXCEPT !.branch = branch] ELSE git

\* GitClient.reset_to_commit(sha, hard=True)
ResetHard(tree, sha) ==
  IF sha = HeadSha THEN [tree EXCEPT !.file = HeadContent] ELSE tree

\* GitClient.push: needs the remote
Push(git) ==
  [success |-> git.has_origin,
   git     |-> IF git.has_origin THEN [git EXCEPT !.pushed = @ \cup {git.branch}]
               ELSE git]

\* what a create_pr_for_branch call leaves: both results, the repository and
\* the remote operations it made, in order
NoPrCall == [push |-> FALSE, pr |-> FALSE, calls |-> <<>>]

\* a variant that calls the pull request API whatever the push returned, to
\* see that C15 depends on the early return after a failed push
CreatePrForBranchAlways(git, pr_ok) ==
  LET p == Push(git)
  IN  [push |-> p.success, pr |-> pr_ok, git |-> p.git,
       calls |-> <<"push", "create_pr">>]

\* RepoOperations.create_pr_for_branch; pr_ok is what `gh pr create` answers
CreatePrForBranch(git, pr_ok) ==
  LET p == Push(git)
  IN  IF ~p.success
      THEN [push |-> FALSE, pr |-> FALSE, git |-> p.git, calls |-> <<"push">>]
      ELSE [push |-> TRUE, pr |-> pr_ok, git |-> p.git,
            calls |-> <<"push", "create_pr">>]

\* a directory made by tempfile.mkdtemp(prefix="termnet_backup_")
BackupDir(repo_exists, repo, state_exists, branch, sha) ==
  [repo_exists |-> repo_exists, repo |-> repo, state_exists |-> state_exists,
   branch |-> branch, sha |-> sha]

\* what shutil.copytree copies of the working tree under
\* ignore_patterns(".git", "__pycache__", "node_modules")
Ignoring(tree) == [tree EXCEPT !.pycache = FALSE]

\* Autopilot._create_backup: the directories after it, the one it returns
\* (0 when it raises).  mkdtemp may fail, copytree may fail after it made
\* the directory.
CreateRepoBackup(backups, tree, git, fault) ==
  LET n == Len(backups) + 1
  IN  CASE fault = "mkdtemp"  -> [backups |-> backups, location |-> 0, exc |-> TRUE]
        [] fault = "copytree" ->
             [backups  |-> Append(backups,
                             BackupDir(TRUE, [Ignoring(tree) EXCEPT !.file = NoContent],
                                       FALSE, Main, HeadSha)),
              location |-> 0, exc |-> TRUE]
        [] OTHER ->
             [backups  |-> Append(backups,
                             BackupDir(TRUE, Ignoring(tree), TRUE, git.branch, HeadSha)),
              location |-> n, exc |-> FALSE]

\* Path(file_path).suffix == ".py"
HasPySuffix(p) == p /= <<>> /\ p[Len(p)] \in {"a.py", "mod.py", "setup.py"}

RECURSIVE ImplementFilesWriting(_, _, _, _, _, _)
\* a variant that writes whatever config.dry_run says, to see that C32
\* depends on the dry_run test before write_text
ImplementFilesWriting(tree, task_id, paths, repo_file, dry_run, fault) ==
  IF paths = <<>> THEN [tree |-> tree, exc |-> FALSE, changes |-> <<>>]
  ELSE LET p    == Head(paths)
           hit  == p = repo_file /\ tree.file.exists /\ HasPySuffix(p)
                     /\ task_id \notin tree.file.marks
       IN  IF ~hit
           THEN ImplementFilesWriting(tree, task_id, Tail(paths), repo_file, dry_run,
                                      fault)
           ELSE IF fault = "read" \/ (fault = "write" /\ ~dry_run)
           THEN [tree |-> tree, exc |-> TRUE, changes |-> <<>>]
           ELSE LET t2   == [tree EXCEPT !.file.marks = @ \cup {task_id}]
                    rest == ImplementFilesWriting(t2, task_id, Tail(paths), repo_file,
                                                  dry_run, fault)
                IN  [rest EXCEPT !.changes = <<p>> \o @]

RECURSIVE ImplementFiles(_, _, _, _, _, _)
\* the loop of Autopilot._execute_implementation_task over estimated_files[:3]
ImplementFiles(tree, task_id, paths, repo_file, dry_run, fault) ==
  IF paths = <<>> THEN [tree |-> tree, exc |-> FALSE, changes |-> <<>>]
  ELSE LET p    == Head(paths)
           hit  == p = repo_file /\ tree.file.exists /\ HasPySuffix(p)
                     /\ task_id \notin tree.file.marks
       IN  IF ~hit
           THEN ImplementFiles(tree, task_id, Tail(paths), repo_file, dry_run, fault)
           ELSE IF fault = "read" \/ (fault = "write" /\ ~dry_run)
           THEN [tree |-> tree, exc |-> TRUE, changes |-> <<>>]
           ELSE LET t2   == IF dry_run THEN tree
                            ELSE [tree EXCEPT !.file.marks = @ \cup {task_id}]
                    rest == ImplementFiles(t2, task_id, Tail(paths), repo_file,
                                           dry_run, fault)
                IN  [rest EXCEPT !.changes = <<p>> \o @]

\* Autopilot._execute_single_task: dispatch on the words in the task id
ExecuteSingleTask(tree, task, repo_file, dry_run, fault) ==
  IF task.id = "analyze_requirements"
  THEN [tree |-> tree, exc |-> FALSE, success |-> TRUE, changes_made |-> <<>>]
  ELSE IF task.id \in {"implement_tests", "fix_implementation", "implement_feature"}
  THEN LET r == ImplementFiles(tree, task.id, PySlice(task.estimated_files, 0, 3),
                               repo_file, dry_run, fault)
       IN  [tree |-> r.tree, exc |-> r.exc, success |-> ~r.exc,
            changes_made |-> r.changes]
  ELSE [tree |-> tree, exc |-> FALSE, success |-> TRUE, changes_made |-> <<>>]

RECURSIVE TaskLoop(_, _, _, _, _, _)
\* the loop of Autopilot._execute_tasks when _execute_single_task does what
\* outcomes says for each task id: "ok" and "fail" are the success of the
\* result it returns, "raise" is an exception; attempted lists the tasks run
TaskLoop(order, nodes, outcomes, completed, failed, attempted) ==
  IF order = <<>>
  THEN [tasks_completed |-> completed, tasks_failed |-> failed,
        attempted |-> attempted]
  ELSE LET task_id == Head(order)
           att     == Append(attempted, task_id)
       IN  IF outcomes[task_id] = "raise"
           THEN [tasks_completed |-> completed, tasks_failed |-> failed + 1,
                 attempted |-> att]
           ELSE IF outcomes[task_id] = "ok"
           THEN TaskLoop(Tail(order), nodes, outcomes, completed + 1, failed, att)
           ELSE IF NodeOf(nodes, task_id).risk = "high" \/ failed + 1 >= 2
           THEN [tasks_completed |-> completed, tasks_failed |-> failed + 1,
                 attempted |-> att]
           ELSE TaskLoop(Tail(order), nodes, outcomes, completed, failed + 1, att)

\* a variant whose success only asks for no failure, to see that C13
\* depends on tasks_completed > 0
ExecuteTasksWithNoFailure(plan, outcomes) ==
  LET order == TopologicalSort(plan.nodes, plan.edges)
      r     == TaskLoop(order, plan.nodes, outcomes, 0, 0, <<>>)
  IN  [success         |-> r.tasks_failed = 0,
       tasks_completed |-> r.tasks_completed,
       tasks_failed    |-> r.tasks_failed,
       order           |-> order,
       attempted       |-> r.attempted]

\* Autopilot._execute_tasks(plan) for given task outcomes
ExecuteTasksWith(plan, outcomes) ==
  LET order == TopologicalSort(plan.nodes, plan.edges)
      r     == TaskLoop(order, plan.nodes, outcomes, 0, 0, <<>>)
  IN  [success         |-> r.tasks_failed = 0 /\ r.tasks_completed > 0,
       tasks_completed |-> r.tasks_completed,
       tasks_failed    |-> r.tasks_failed,
       order           |-> order,
       attempted       |-> r.attempted]

RECURSIVE RunTasks(_, _, _, _, _, _, _, _)
\* the loop of Autopilot._execute_tasks over the sorted task ids
RunTasks(tree, order, nodes, repo_file, dry_run, fault, completed, failed) ==
  IF order = <<>>
  THEN [tree |-> tree, tasks_completed |-> completed, tasks_failed |-> failed,
        all_changes |-> <<>>, ran |-> <<>>]
  ELSE LET task == NodeOf(nodes, Head(order))
           r    == ExecuteSingleTask(tree, task, repo_file, dry_run, fault)
       IN  IF r.exc
           THEN [tree |-> r.tree, tasks_completed |-> completed,
                 tasks_failed |-> failed + 1, all_changes |-> <<>>,
                 ran |-> <<task.id>>]
           ELSE IF r.success
           THEN LET rest == RunTasks(r.tree, Tail(order), nodes, repo_file, dry_run,
                                     fault, completed + 1, failed)
                IN  [rest EXCEPT !.all_changes = r.changes_made \o @,
                                 !.ran = <<task.id>> \o @]
           ELSE IF task.risk = "high" \/ failed + 1 >= 2
           THEN [tree |-> r.tree, tasks_completed |-> completed,
                 tasks_failed |-> failed + 1, all_changes |-> <<>>,
                 ran |-> <<task.id>>]
           ELSE LET rest == RunTasks(r.tree, Tail(order), nodes, repo_file, dry_run,
                                     fault, completed, failed + 1)
                IN  [rest EXCEPT !.ran = <<task.id>> \o @]

\* Autopilot._rollback_changes for the backup directory b: copy its items
\* back, then check out its branch and reset to its sha.  rmtree or copy may
\* fail on the file; the exception is caught and False is returned.  The
\* directory of the file is removed and copied back from the backup, which
\* has no __pycache__ in it.
RollbackChanges(env, tree, git, b, fault) ==
  LET copies   == b.repo_exists /\ b.repo.file.exists
      restored == [file    |-> IF copies THEN b.repo.file ELSE tree.file,
                   cache   |-> IF b.repo_exists /\ env.cwd_in_repo
                               THEN b.repo.cache ELSE tree.cache,
                   pycache |-> IF copies THEN b.repo.pycache ELSE tree.pycache]
  IN  IF copies /\ fault = "rmtree"
      THEN [tree |-> tree, git |-> git, ok |-> FALSE, copied |-> FALSE]
      ELSE IF copies /\ fault = "copy"
      THEN [tree |-> [tree EXCEPT !.file = NoContent, !.pycache = FALSE], git |-> git,
            ok |-> FALSE, copied |-> FALSE]
      ELSE IF b.state_exists
      THEN [tree |-> ResetHard(restored, b.sha), git |-> Checkout(git, b.branch),
            ok |-> TRUE, copied |-> copies]
      ELSE [tree |-> restored, git |-> git, ok |-> TRUE, copied |-> copies]

\* ExecutionResult(success, message, tasks_completed, tasks_failed, ...)
ExecutionResult(success, message, completed, failed, errors) ==
  [success |-> success, message |-> message, tasks_completed |-> completed,
   tasks_failed |-> failed, branch_created |-> <<>>, commit_sha |-> "none",
   pr_url |-> "none", errors |-> errors, warnings |-> <<>>]

(***************************************************************************)
(* State                                                                   *)
(*   cfg         EditEngine.config                                         *)
(*   files, dirs the file system                                           *)
(*   backup_dir  the directory EditEngine._backup_dir names                *)
(*   pc          "idle" before the call, "returned" after it               *)
(*   call        the call that returned: [op, diff, dry_run, fault, again] *)
(*   pre         the file system when that call started                    *)
(*   res         what that call returned                                   *)
(*   earlier     the calls before it: a list of [pre, res]                 *)
(***************************************************************************)
VARIABLES cfg, files, dirs, backup_dir, pc, call, pre, res, earlier

(***************************************************************************)
(*   config           Autopilot.config                                     *)
(*   env              where the process runs                               *)
(*   backup_location  Autopilot.backup_location: 0 is None, n the n-th     *)
(*                    directory of backups                                 *)
(*   tree, git        the working tree and the git state of the repository *)
(*   backups          the backup directories that exist, oldest first      *)
(*   phase            where execute_goal is                                *)
(*   run              the call of execute_goal in progress                 *)
(*   result           what the last call returned                          *)
(*   ncalls           the calls made on the instance                       *)
(***************************************************************************)
VARIABLES config, env, backup_location, tree, git, backups, phase, run, result, ncalls

(***************************************************************************)
(*   loop             a call of _execute_tasks with given task outcomes:   *)
(*                    [pc, plan, outcomes, out]                            *)
(***************************************************************************)
VARIABLES loop

(***************************************************************************)
(*   planning  two WorkPlanner instances, the number of plan calls made,   *)
(*             and the last two calls: [self, goal, repo_intel, out]       *)
(***************************************************************************)
VARIABLES planning

(***************************************************************************)
(*   consumer  a caller that holds a graph plan returned: the document it  *)
(*             serialized the graph to, the value it read back, and the   *)
(*             specs test_plan made for it                                 *)
(***************************************************************************)
VARIABLES consumer

call_vars == <<loop, planning, consumer>>

edit_vars == <<cfg, files, dirs, backup_dir, pc, call, pre, res, earlier>>

auto_vars == <<config, env, backup_location, tree, git, backups, phase, run, result,
               ncalls>>

vars == <<edit_vars, auto_vars, call_vars>>

World == [files |-> files, dirs |-> dirs, bdir |-> backup_dir]

NoCall == [op |-> "none", diff |-> <<>>, dry_run |-> FALSE, fault |-> NoFault,
           again |-> FALSE]

NoResult == Result("none", {}, FALSE, <<>>, FALSE)

\* the orders in which os.listdir may return the backups of the files of diff
ListdirOrders(diff) ==
  LET names == {BackupName(k) : k \in Range(Keys(ParseUnifiedDiff(diff).patches))}
      n     == Cardinality(names)
  IN  {s \in [1..n -> names] : Range(s) = names}

Returns(out, c) ==
  /\ files' = out.w.files
  /\ dirs' = out.w.dirs
  /\ backup_dir' = out.w.bdir
  /\ pre' = World
  /\ call' = c
  /\ res' = out.res
  /\ earlier' = IF pc = "returned" THEN Append(earlier, [pre |-> pre, res |-> res])
                ELSE earlier
  /\ pc' = "returned"
  /\ UNCHANGED <<cfg, auto_vars, call_vars>>

\* EditEngine.apply_patch(diff, dry_run)
ApplyPatch(diff, dry_run, fault, names) ==
  /\ pc = "idle"
  /\ Returns(ApplyPatchCall(World, cfg, diff, dry_run, fault, names),
             [op |-> "apply_patch", diff |-> diff, dry_run |-> dry_run,
              fault |-> fault, again |-> FALSE])

\* the caller applies the diff that was just applied with success once more
ApplyPatchAgain ==
  /\ pc = "returned"
  /\ call.op = "apply_patch" /\ ~call.dry_run /\ ~call.again
  /\ res.status = "success"
  /\ \E names \in ListdirOrders(call.diff) :
       Returns(ApplyPatchCall(World, cfg, call.diff, FALSE, NoFault, names),
               [call EXCEPT !.again = TRUE, !.fault = NoFault])

\* EditEngine.get_patch_preview(diff)
GetPatchPreview(diff, fault) ==
  /\ pc = "idle"
  /\ Returns([w |-> World, res |-> PatchPreview(World, cfg, diff, fault)],
             [op |-> "get_patch_preview", diff |-> diff, dry_run |-> FALSE,
              fault |-> fault, again |-> FALSE])

(***************************************************************************)
(* Inputs: paths, configurations, file contents, diff texts                *)
(***************************************************************************)
PA == <<"termnet", "/", "a.py">>

PU == <<"termnet", "/", "my", "_", "mod.py">>

PT == <<"setup.py">>

PG == <<".git", "/", "config">>

PatchPaths == {PA, PU, PT, PG}

\* a repo_path other than the working directory
RepoR == <<"/r">>

RepoPaths == {<<".">>, RepoR}

FsPaths ==
  PatchPaths \cup {JoinPath(RepoR, p) : p \in PatchPaths}
             \cup {OriginalPath(BackupName(p)) : p \in PatchPaths}

\* the directories of the files that exist, and the repository roots
DirsOf(fs) ==
  UNION {Ancestors(DirName(p)) : p \in {q \in DOMAIN fs : fs[q].exists}}
    \cup {<<>>, RepoR}

Txt == {"a", "b"}

Line(t) == [txt |-> t, nl |-> TRUE]

\* the lists of at most n lines readlines can return: only the last line may
\* lack its newline
Contents(n) ==
  UNION {{c \in [1..k -> [txt : Txt, nl : BOOLEAN]] :
            \A i \in 1..(k - 1) : c[i].nl} : k \in 0..n}

HunkLine == {Ctx(t) : t \in Txt} \cup {Del(t) : t \in Txt} \cup {Add(t) : t \in Txt}

\* the bodies of at most n lines
Bodies(n) == UNION {[1..k -> HunkLine] : k \in 1..n}

NumTag(body, tag) == Len(SelectSeq(body, LAMBDA l : l.k = tag))

\* a hunk of a diff text: its header, with the counts of the body, and the body
HunkText(os, ns, body) ==
  <<HunkHdr(os, NumTag(body, " ") + NumTag(body, "-"),
            ns, NumTag(body, " ") + NumTag(body, "+"))>> \o body

\* the two header lines of a file followed by its hunks
Section(p, hunks) == <<OldHdr(p), NewHdr(p)>> \o hunks

\* the diff text with a final "\n"
Newline(diff) == diff \o <<EmptyLine>>

\* the engine of the test suite: every path allowed, nothing blocked
OpenGuardrails ==
  [allowed_paths |-> {<<"*">>, <<"*", "*", "/", "*">>},
   blocked_paths |-> {},
   max_total_patch_bytes |-> 50000,
   max_files_per_patch |-> 20]

Config(g, cr, rp) == [write_guardrails |-> g, conflict_resolution |-> cr, repo_path |-> rp]

(***************************************************************************)
(* Autopilot.execute_goal, one action per phase                            *)
(***************************************************************************)
NoGoal == Goal(FALSE, {}, "")

NoExecutionResult == ExecutionResult(FALSE, "none", 0, 0, <<>>)

\* what the EXECUTE phase of a call did: the working tree before and after
\* the task loop, the tasks run, and the changes_made the tasks reported
NoTasksRun ==
  [done |-> FALSE, before |-> [file |-> HeadContent, cache |-> FALSE, pycache |-> FALSE],
   after |-> [file |-> HeadContent, cache |-> FALSE, pycache |-> FALSE], ran |-> <<>>,
   all_changes |-> <<>>]

\* no _perform_safety_checks has returned in this call
NoSafetyResult == [done |-> FALSE, safe |-> FALSE, reason |-> "none", warnings |-> <<>>]

\* the locals of the call in progress, the state it started from, and what
\* it has done so far
NewRun(goal) ==
  [goal |-> goal, repo_files |-> <<>>, plan |-> NoPlan, exc |-> "none",
   execution_result |-> NoExecutionResult, rollback |-> "none", phases |-> <<>>,
   finalize |-> "none", pr |-> NoPrCall, tasks |-> NoTasksRun,
   safety |-> NoSafetyResult,
   start |-> [tree |-> tree, git |-> git, backups |-> Len(backups),
              backup_location |-> backup_location]]

NoRun ==
  [goal |-> NoGoal, repo_files |-> <<>>, plan |-> NoPlan, exc |-> "none",
   execution_result |-> NoExecutionResult, rollback |-> "none", phases |-> <<>>,
   finalize |-> "none", pr |-> NoPrCall, tasks |-> NoTasksRun,
   safety |-> NoSafetyResult,
   start |-> [tree |-> [file |-> HeadContent, cache |-> FALSE, pycache |-> FALSE],
              git |-> [branch |-> Main, branches |-> {Main}, has_origin |-> FALSE,
                       pushed |-> {}],
              backups |-> 0, backup_location |-> 0]]

Entered(r) == [r EXCEPT !.phases = Append(@, phase)]

\* execute_goal returns r
ReturnResult(r) ==
  /\ result' = r
  /\ phase' = "returned"

\* a caller calls execute_goal(goal) on the instance
ExecuteGoal(goal) ==
  /\ phase \in {"idle", "returned"}
  /\ ncalls < MaxCalls
  /\ ncalls' = ncalls + 1
  /\ run' = NewRun(goal)
  /\ result' = NoExecutionResult
  /\ phase' = "ANALYZE"
  /\ UNCHANGED <<config, env, backup_location, tree, git, backups, edit_vars, call_vars>>

\* _analyze_repository: build_index, which ends by writing its cache file
\* under the current directory, then get_repository_state; any exception
\* in it makes execute_goal return
AnalyzeRepository(fails) ==
  /\ phase = "ANALYZE"
  /\ IF fails
     THEN /\ ReturnResult(ExecutionResult(FALSE, "Repository analysis failed", 0, 0, <<>>))
          /\ run' = Entered(run)
          /\ UNCHANGED tree
     ELSE /\ tree' = [tree EXCEPT !.cache = @ \/ env.cwd_in_repo]
          /\ run' = [Entered(run) EXCEPT
                       !.repo_files = IF env.cwd_in_repo THEN <<PA>> ELSE <<>>]
          /\ phase' = "PLAN"
          /\ UNCHANGED result
  /\ UNCHANGED <<config, env, backup_location, git, backups, ncalls, edit_vars, call_vars>>

\* _create_execution_plan: planner.plan raises unless the goal is a str
CreateExecutionPlan ==
  /\ phase = "PLAN"
  /\ IF ~run.goal.is_str
     THEN /\ run' = [Entered(run) EXCEPT !.exc = "AttributeError"]
          /\ phase' = "EXCEPT"
     ELSE /\ run' = [Entered(run) EXCEPT
                       !.plan = Plan(run.goal, run.repo_files,
                                     config.max_tasks_per_run)]
          /\ phase' = IF config.safety_checks THEN "SAFETY_CHECK"
                      ELSE "BACKUP_AND_BRANCH"
  /\ UNCHANGED <<config, env, backup_location, tree, git, backups, ncalls, result,
                 edit_vars, call_vars>>

\* a variant that does not look at the working tree, to see that C8
\* depends on the is_clean check
PerformSafetyChecksAnyTree ==
  /\ phase = "SAFETY_CHECK"
  /\ run' = Entered(run)
  /\ IF run.plan.total_tasks > config.max_tasks_per_run
     THEN ReturnResult(ExecutionResult(FALSE, "Plan exceeds the task limit", 0, 0, <<>>))
     ELSE phase' = "BACKUP_AND_BRANCH" /\ UNCHANGED result
  /\ UNCHANGED <<config, env, backup_location, tree, git, backups, ncalls, edit_vars, call_vars>>

\* the warnings of _perform_safety_checks: more than two tasks of risk
\* "high", more than ten files in the union of the estimated_files
SafetyWarnings(plan) ==
  LET high_risk_tasks == SelectSeq(plan.nodes, LAMBDA t : t.risk = "high")
      estimated_files == UNION {Range(plan.nodes[i].estimated_files) :
                                  i \in 1..Len(plan.nodes)}
  IN  (IF Len(high_risk_tasks) > 2 THEN <<"high-risk tasks">> ELSE <<>>)
        \o (IF Cardinality(estimated_files) > 10 THEN <<"files">> ELSE <<>>)

\* Autopilot._perform_safety_checks(plan): the dict it returns
SafetyChecks(e, t, plan, max_tasks_per_run) ==
  IF ~IsClean(e, t)
  THEN [done |-> TRUE, safe |-> FALSE, reason |-> "Repository has uncommitted changes",
        warnings |-> <<>>]
  ELSE IF plan.total_tasks > max_tasks_per_run
  THEN [done |-> TRUE, safe |-> FALSE, reason |-> "Plan exceeds the task limit",
        warnings |-> <<>>]
  ELSE [done |-> TRUE, safe |-> TRUE, reason |-> "none",
        warnings |-> SafetyWarnings(plan)]

\* _perform_safety_checks, and the return of execute_goal when it says
\* unsafe; the warnings of a check that passed are not read again
PerformSafetyChecks ==
  /\ phase = "SAFETY_CHECK"
  /\ LET safety_result == SafetyChecks(env, tree, run.plan, config.max_tasks_per_run)
     IN  /\ run' = [Entered(run) EXCEPT !.safety = safety_result]
         /\ IF ~safety_result.safe
            THEN ReturnResult(ExecutionResult(FALSE, safety_result.reason, 0, 0, <<>>))
            ELSE phase' = "BACKUP_AND_BRANCH" /\ UNCHANGED result
  /\ UNCHANGED <<config, env, backup_location, tree, git, backups, ncalls, edit_vars, call_vars>>

\* a variant that goes on to the tasks whatever create_feature_branch
\* returned, to see that C11 depends on the check of its result
CreateBackupAndBranchAnyBranch(fault) ==
  /\ phase = "BACKUP_AND_BRANCH"
  /\ config.backup_enabled \/ fault = "none"
  /\ LET b  == IF config.backup_enabled
               THEN CreateRepoBackup(backups, tree, git, fault)
               ELSE [backups |-> backups, location |-> backup_location, exc |-> FALSE]
         br == CreateBranch(git, run.goal.slug, Main)
     IN  /\ backups' = b.backups
         /\ IF b.exc
            THEN /\ run' = [Entered(run) EXCEPT !.exc = "OSError"]
                 /\ phase' = "EXCEPT"
                 /\ UNCHANGED <<backup_location, git, result>>
            ELSE /\ backup_location' = b.location
                 /\ git' = br.git
                 /\ run' = Entered(run)
                 /\ phase' = "EXECUTE" /\ UNCHANGED result
  /\ UNCHANGED <<config, env, tree, ncalls, edit_vars, call_vars>>

\* _create_backup_and_branch: backup_location is assigned only when
\* _create_backup returns; then the feature branch is created
CreateBackupAndBranch(fault) ==
  /\ phase = "BACKUP_AND_BRANCH"
  /\ config.backup_enabled \/ fault = "none"
  /\ LET b  == IF config.backup_enabled
               THEN CreateRepoBackup(backups, tree, git, fault)
               ELSE [backups |-> backups, location |-> backup_location, exc |-> FALSE]
         br == CreateBranch(git, run.goal.slug, Main)
     IN  /\ backups' = b.backups
         /\ IF b.exc
            THEN /\ run' = [Entered(run) EXCEPT !.exc = "OSError"]
                 /\ phase' = "EXCEPT"
                 /\ UNCHANGED <<backup_location, git, result>>
            ELSE /\ backup_location' = b.location
                 /\ git' = br.git
                 /\ run' = Entered(run)
                 /\ IF br.success
                    THEN phase' = "EXECUTE" /\ UNCHANGED result
                    ELSE ReturnResult(ExecutionResult(FALSE,
                                        "Failed to create backup/branch", 0, 0, <<>>))
  /\ UNCHANGED <<config, env, tree, ncalls, edit_vars, call_vars>>

\* a variant that rolls back to the backup before it returns a failed task
\* loop, to see that C38 depends on rollback being left to the except clause
ExecuteTasksRollingBack(fault) ==
  /\ phase = "EXECUTE"
  /\ LET order == TopologicalSort(run.plan.nodes, run.plan.edges)
         r     == RunTasks(tree, order, run.plan.nodes, PA, config.dry_run, fault, 0, 0)
         ok    == r.tasks_failed = 0 /\ r.tasks_completed > 0
         er    == ExecutionResult(ok, "Completed", r.tasks_completed, r.tasks_failed,
                                  [i \in 1..r.tasks_failed |-> "task failed"])
         back  == IF ~ok /\ backup_location /= 0
                  THEN RollbackChanges(env, r.tree, git, backups[backup_location], "none")
                  ELSE [tree |-> r.tree, git |-> git, ok |-> FALSE, copied |-> FALSE]
     IN  /\ tree' = back.tree
         /\ git' = back.git
         /\ run' = [Entered(run) EXCEPT
                      !.execution_result = er,
                      !.rollback = IF back.ok THEN "done" ELSE @,
                      !.tasks = [done |-> TRUE, before |-> tree, after |-> r.tree,
                                 ran |-> r.ran, all_changes |-> r.all_changes]]
         /\ IF ok THEN phase' = "FINALIZE" /\ UNCHANGED result
            ELSE ReturnResult(er)
  /\ UNCHANGED <<config, env, backup_location, backups, ncalls, edit_vars, call_vars>>

\* _execute_tasks; execute_goal returns its result when it is not a success
ExecuteTasks(fault) ==
  /\ phase = "EXECUTE"
  /\ LET order == TopologicalSort(run.plan.nodes, run.plan.edges)
         r     == RunTasks(tree, order, run.plan.nodes, PA, config.dry_run, fault, 0, 0)
         ok    == r.tasks_failed = 0 /\ r.tasks_completed > 0
         er    == ExecutionResult(ok, "Completed", r.tasks_completed, r.tasks_failed,
                                  [i \in 1..r.tasks_failed |-> "task failed"])
     IN  /\ tree' = r.tree
         /\ run' = [Entered(run) EXCEPT
                      !.execution_result = er,
                      !.tasks = [done |-> TRUE, before |-> tree, after |-> r.tree,
                                 ran |-> r.ran, all_changes |-> r.all_changes]]
         /\ IF ok THEN phase' = "FINALIZE" /\ UNCHANGED result
            ELSE ReturnResult(er)
  /\ UNCHANGED <<config, env, backup_location, git, backups, ncalls, edit_vars, call_vars>>

\* _validate_and_finalize; execute_goal returns the execution result unless
\* a pull request is to be created
ValidateAndFinalize ==
  /\ phase = "FINALIZE"
  /\ LET pending    == ~IsClean(env, tree)
         validation == IF pending THEN Commit(env, tree)
                       ELSE [success |-> TRUE, message |-> "No changes to commit"]
         er         == IF pending /\ validation.success
                       THEN [run.execution_result EXCEPT !.commit_sha = HeadSha,
                                                         !.branch_created = git.branch]
                       ELSE run.execution_result
     IN  /\ run' = [Entered(run) EXCEPT !.finalize = validation.message,
                                        !.execution_result = er]
         /\ IF validation.success /\ config.auto_create_pr
            THEN phase' = "CREATE_PR" /\ UNCHANGED result
            ELSE ReturnResult(er)
  /\ UNCHANGED <<config, env, backup_location, tree, git, backups, ncalls, edit_vars, call_vars>>

\* _create_pull_request: push, then gh pr create
CreatePullRequest(pr_ok) ==
  /\ phase = "CREATE_PR"
  /\ LET c == CreatePrForBranch(git, pr_ok)
     IN  /\ git' = c.git
         /\ c.push \/ ~pr_ok
         /\ run' = [Entered(run) EXCEPT !.pr = [push |-> c.push, pr |-> c.pr,
                                                calls |-> c.calls]]
         /\ ReturnResult([run.execution_result EXCEPT
                            !.pr_url = IF c.pr THEN "url" ELSE "none"])
  /\ UNCHANGED <<config, env, backup_location, tree, backups, ncalls, edit_vars, call_vars>>

\* a variant in which a failing rollback leaves execute_goal as an
\* exception, to see that C7 depends on the try of _rollback_changes
HandleExceptionReraising(fault) ==
  /\ phase = "EXCEPT"
  /\ backup_location /= 0 \/ fault = "none"
  /\ IF backup_location /= 0
     THEN LET r == RollbackChanges(env, tree, git, backups[backup_location], fault)
          IN  /\ tree' = r.tree
              /\ git' = r.git
              /\ run' = [Entered(run) EXCEPT
                           !.rollback = IF r.ok THEN "done" ELSE "failed"]
              /\ IF r.ok
                 THEN ReturnResult(ExecutionResult(FALSE, "Execution failed with error",
                                                   0, 0, <<run.exc>>))
                 ELSE phase' = "raised" /\ UNCHANGED result
     ELSE /\ run' = Entered(run)
          /\ UNCHANGED <<tree, git>>
          /\ ReturnResult(ExecutionResult(FALSE, "Execution failed with error", 0, 0,
                                          <<run.exc>>))
  /\ UNCHANGED <<config, env, backup_location, backups, ncalls, edit_vars, call_vars>>

\* the except clause of execute_goal: rollback when backup_location is set
HandleException(fault) ==
  /\ phase = "EXCEPT"
  /\ backup_location /= 0 \/ fault = "none"
  /\ IF backup_location /= 0
     THEN LET r == RollbackChanges(env, tree, git, backups[backup_location], fault)
          IN  /\ tree' = r.tree
              /\ git' = r.git
              /\ run' = [Entered(run) EXCEPT
                           !.rollback = IF r.ok THEN "done" ELSE "failed"]
     ELSE /\ run' = Entered(run)
          /\ UNCHANGED <<tree, git>>
  /\ ReturnResult(ExecutionResult(FALSE, "Execution failed with error", 0, 0,
                                  <<run.exc>>))
  /\ UNCHANGED <<config, env, backup_location, backups, ncalls, edit_vars, call_vars>>

NoTasksOut ==
  [success |-> FALSE, tasks_completed |-> 0, tasks_failed |-> 0, order |-> <<>>,
   attempted |-> <<>>]

\* no call of _execute_tasks is looked at
LoopIdle ==
  loop = [pc |-> "idle", plan |-> NoPlan, outcomes |-> <<>>, out |-> NoTasksOut]

\* _execute_tasks(plan) is called, with _execute_single_task replaced by
\* the outcomes drawn for the tasks
ExecuteTasksCall ==
  /\ loop.pc = "idle"
  /\ loop' = [loop EXCEPT !.pc = "returned",
                          !.out = ExecuteTasksWith(loop.plan, loop.outcomes)]
  /\ UNCHANGED <<planning, consumer, edit_vars, auto_vars>>

NoPlanOut ==
  [nodes |-> <<>>, edges |-> <<>>, total_tasks |-> 0, goal |-> NoGoal,
   plan_hash |-> <<>>, created_at |-> 0, estimated_complexity |-> "low"]

NoPlanCall ==
  [self |-> 0, goal |-> NoGoal, repo_intel |-> RepoIntel(<<>>, <<>>), out |-> NoPlanOut]

\* no WorkPlanner is looked at
PlanIdle ==
  planning = [planners |-> <<>>, clock |-> 0, prev |-> NoPlanCall, last |-> NoPlanCall]

\* planners[i].plan(goal, repo_intel) is called; the clock is the time
PlanCall(i, goal, repo_intel) ==
  /\ planning.clock < MaxClock
  /\ LET now == planning.clock + 1
         out == PlanAt(planning.planners[i], goal, repo_intel, now)
     IN  planning' = [planning EXCEPT
                        !.clock = now,
                        !.prev  = planning.last,
                        !.last  = [self |-> i, goal |-> goal,
                                   repo_intel |-> repo_intel, out |-> out]]
  /\ UNCHANGED <<loop, consumer, edit_vars, auto_vars>>

NoDocument == [state |-> "none", json |-> [k |-> "null", v |-> <<>>]]

NoValue == [state |-> "none", value |-> PyList(<<>>)]

NoSpecs == [state |-> "none", specs |-> <<>>]

\* a caller that holds the graph and has done nothing with it
Holding(graph) ==
  [graph |-> graph, document |-> NoDocument, restored |-> NoValue, tests |-> NoSpecs]

\* no graph is held
ConsumerIdle == consumer = Holding(NoPlanOut)

\* json.dumps(graph): the document, or TypeError
JsonDumps ==
  /\ consumer.graph /= NoPlanOut
  /\ consumer.document.state = "none"
  /\ LET value == GraphValue(consumer.graph)
     IN  consumer' = [consumer EXCEPT
                        !.document = IF JsonEncodable(value)
                                     THEN [state |-> "written", json |-> JsonEncode(value)]
                                     ELSE [NoDocument EXCEPT !.state = "raised"]]
  /\ UNCHANGED <<loop, planning, edit_vars, auto_vars>>

\* json.loads of the document written
JsonLoads ==
  /\ consumer.document.state = "written"
  /\ consumer.restored.state = "none"
  /\ consumer' = [consumer EXCEPT
                    !.restored = [state |-> "read",
                                  value |-> JsonDecode(consumer.document.json)]]
  /\ UNCHANGED <<loop, planning, edit_vars, auto_vars>>

\* planner.test_plan(graph)
TestPlanCall ==
  /\ consumer.graph /= NoPlanOut
  /\ consumer.tests.state = "none"
  /\ consumer' = [consumer EXCEPT
                    !.tests = [state |-> "made", specs |-> TestPlan(consumer.graph)]]
  /\ UNCHANGED <<loop, planning, edit_vars, auto_vars>>

\* no Autopilot is at work
AutoIdle ==
  /\ config = [max_tasks_per_run |-> 5, safety_checks |-> TRUE,
               backup_enabled |-> TRUE, dry_run |-> TRUE, auto_create_pr |-> FALSE]
  /\ env = [cwd_in_repo |-> FALSE, cache_ignored |-> FALSE]
  /\ backup_location = 0
  /\ tree = [file |-> HeadContent, cache |-> FALSE, pycache |-> FALSE]
  /\ git = [branch |-> Main, branches |-> {Main}, has_origin |-> FALSE, pushed |-> {}]
  /\ backups = <<>>
  /\ phase = "idle"
  /\ run = NoRun
  /\ result = NoExecutionResult
  /\ ncalls = 0

(***************************************************************************)
(* SpecHunks: one file, every small hunk                                   *)
(***************************************************************************)
OldStarts == 0..2

HunkDiffs ==
  LET one == {Section(PA, HunkText(os, IF os = 0 THEN 1 ELSE os, b)) :
                os \in OldStarts, b \in Bodies(MaxHunkLines)}
      two == {Section(PA, HunkText(1, 1, <<b1>>)
                          \o HunkText(2, 2 + NumTag(<<b1>>, "+") - NumTag(<<b1>>, "-"),
                                      <<b2>>)) :
                b1 \in HunkLine, b2 \in HunkLine}
      \* the same two hunks with the later one first in the diff text
      rev == {Section(PA, HunkText(2, 2 + NumTag(<<b1>>, "+") - NumTag(<<b1>>, "-"),
                                   <<b2>>)
                          \o HunkText(1, 1, <<b1>>)) :
                b1 \in HunkLine, b2 \in HunkLine}
      \* two hunks that insert before the same line
      same == {Section(PA, HunkText(1, 1, <<Add(t1)>>) \o HunkText(1, 2, <<Add(t2)>>)) :
                 t1 \in Txt, t2 \in Txt}
  IN  one \cup {Newline(d) : d \in one} \cup two \cup rev \cup same

\* an EditEngine before its first call
EditInit(cfgs, fss) ==
  /\ cfg \in cfgs
  /\ files \in fss
  /\ dirs = DirsOf(files)
  /\ backup_dir = NoBackupDir
  /\ pc = "idle"
  /\ call = NoCall
  /\ pre = [files |-> files, dirs |-> dirs, bdir |-> backup_dir]
  /\ res = NoResult
  /\ earlier = <<>>

InitEngine(cfgs, fss) ==
  EditInit(cfgs, fss) /\ AutoIdle /\ LoopIdle /\ PlanIdle /\ ConsumerIdle

\* no EditEngine is at work
EditIdle ==
  EditInit({Config(OpenGuardrails, DefaultConflictResolution, <<".">>)},
           {[p \in FsPaths |-> NoFile]})

\* the file systems in which only PA may exist
OneFile(cs) ==
  {[p \in FsPaths |-> IF p = PA THEN f ELSE NoFile] :
     f \in {NoFile} \cup {File(c) : c \in cs}}

InitHunks ==
  InitEngine({Config(OpenGuardrails, DefaultConflictResolution, <<".">>)},
             OneFile(Contents(MaxContentLen)))

NextHunks ==
  \/ \E d \in HunkDiffs, dr \in BOOLEAN :
       \E names \in ListdirOrders(d) : ApplyPatch(d, dr, NoFault, names)
  \/ ApplyPatchAgain
  \/ \E d \in HunkDiffs : GetPatchPreview(d, NoFault)

SpecHunks == InitHunks /\ [][NextHunks]_vars

(***************************************************************************)
(* SpecFiles: several files, guardrails, failing reads and writes          *)
(***************************************************************************)
\* the guardrails of the engine Autopilot builds
AutopilotGuardrails ==
  [allowed_paths |-> {<<"*">>, <<"*", "*", "/", "*">>},
   blocked_paths |-> {<<".git", "/", "*", "*">>, <<"__pycache__", "/", "*", "*">>,
                      <<"*", ".pyc">>},
   max_total_patch_bytes |-> 50000,
   max_files_per_patch |-> 20]

\* limits that small patches reach
TightGuardrails ==
  [OpenGuardrails EXCEPT !.max_total_patch_bytes = 4, !.max_files_per_patch = 1]

FileConfigs ==
  {Config(DefaultGuardrails, DefaultConflictResolution, <<".">>),
   Config(AutopilotGuardrails, DefaultConflictResolution, RepoR),
   Config(TightGuardrails, DefaultConflictResolution, <<".">>),
   Config(OpenGuardrails, DefaultConflictResolution, <<".">>),
   Config(OpenGuardrails, [split_hunks |-> FALSE, backup_on_conflict |-> FALSE], <<".">>)}

\* the file systems where the files of ps hold the one line "a"
Populated(ps) == [p \in FsPaths |-> IF p \in ps THEN File(<<Line("a")>>) ELSE NoFile]

FileSystems ==
  {Populated({}), Populated(PatchPaths),
   Populated({JoinPath(RepoR, p) : p \in PatchPaths}),
   Populated({PU, JoinPath(RepoR, PU)})}

\* one hunk that adds after a context line, one that creates, one that removes
FileHunks ==
  {HunkText(1, 1, <<Ctx("a"), Add("b")>>), HunkText(0, 1, <<Add("a")>>),
   HunkText(1, 1, <<Del("a")>>)}

FileDiffs ==
  {Section(p, h) : p \in PatchPaths, h \in FileHunks}
  \cup {Section(p, h) \o Section(q, HunkText(1, 1, <<Ctx("a"), Add("b")>>)) :
          p \in PatchPaths, q \in PatchPaths \ {PG}, h \in FileHunks}
  \cup {<<Junk>>,
        <<HunkHdr(1, 1, 1, 2), Ctx("a"), Add("b")>>,
        <<OldHdr(PA), NewHdr(PA), BadHunkHdr, Ctx("a"), Add("b")>>,
        Section(PA, HunkText(1, 1, <<Ctx("a"), Add("b")>>))
          \o <<OldHdr(PU), NewHdr(PU), BadHunkHdr, Add("b")>>}

FaultPaths == {PA, PU, JoinPath(RepoR, PA), JoinPath(RepoR, PU)}

Faults ==
  {NoFault} \cup {[kind |-> k, path |-> p] : k \in {"read", "decode", "write"},
                                             p \in FaultPaths}

InitFiles == InitEngine(FileConfigs, FileSystems)

NextFiles ==
  \/ \E d \in FileDiffs, dr \in BOOLEAN, f \in Faults :
       \E names \in ListdirOrders(d) : ApplyPatch(d, dr, f, names)
  \/ ApplyPatchAgain
  \/ \E d \in FileDiffs, f \in Faults : GetPatchPreview(d, f)

SpecFiles == InitFiles /\ [][NextFiles]_vars

(***************************************************************************)
(* SpecAuto: calls of execute_goal on one Autopilot instance               *)
(***************************************************************************)
GoalDocs == Goal(TRUE, {}, "update-docs")

GoalFix == Goal(TRUE, {"fix"}, "fix-bug")

GoalAdd == Goal(TRUE, {"add", "test"}, "add-tests")

GoalNone == Goal(FALSE, {}, "")

Goals == {GoalDocs, GoalFix, GoalAdd, GoalNone}

\* AutopilotConfig: the defaults are 5, True, True, True, False
Configs ==
  [max_tasks_per_run : {5}, safety_checks : BOOLEAN, backup_enabled : BOOLEAN,
   dry_run : BOOLEAN, auto_create_pr : BOOLEAN]

\* where the process runs and whether .cache is ignored by git
Envs ==
  {[cwd_in_repo |-> FALSE, cache_ignored |-> FALSE],
   [cwd_in_repo |-> TRUE, cache_ignored |-> FALSE],
   [cwd_in_repo |-> TRUE, cache_ignored |-> TRUE]}

\* Autopilot.__init__ leaves backup_location None; the working tree may hold
\* an uncommitted edit
InitAuto ==
  /\ config \in Configs
  /\ env \in Envs
  /\ backup_location = 0
  /\ tree \in {[file |-> Content(TRUE, e, {}), cache |-> FALSE, pycache |-> c] :
                 e \in BOOLEAN, c \in BOOLEAN}
  /\ git \in {[branch |-> Main, branches |-> {Main}, has_origin |-> o, pushed |-> {}] :
                o \in BOOLEAN}
  /\ backups = <<>>
  /\ phase = "idle"
  /\ run = NoRun
  /\ result = NoExecutionResult
  /\ ncalls = 0
  /\ EditIdle
  /\ LoopIdle
  /\ PlanIdle
  /\ ConsumerIdle

NextAuto ==
  \/ \E g \in Goals : ExecuteGoal(g)
  \/ \E f \in BOOLEAN : AnalyzeRepository(f)
  \/ CreateExecutionPlan
  \/ PerformSafetyChecks
  \/ \E f \in {"none", "mkdtemp", "copytree"} : CreateBackupAndBranch(f)
  \/ \E f \in {"none", "read", "write"} : ExecuteTasks(f)
  \/ ValidateAndFinalize
  \/ \E ok \in BOOLEAN : CreatePullRequest(ok)
  \/ \E f \in {"none", "rmtree", "copy"} : HandleException(f)

SpecAuto == InitAuto /\ [][NextAuto]_vars

(***************************************************************************)
(* SpecSafety: execute_goal from SAFETY_CHECK on, for the task graphs of a *)
(* planner other than WorkPlanner installed as Autopilot.planner           *)
(***************************************************************************)
StubIds ==
  <<"migrate_schema", "rewrite_core", "drop_tables", "rename_module",
    "bump_version", "update_docs">>

FewFiles == <<(<<"docs", "/">>), (<<"tests", "/">>)>>

ManyFiles ==
  <<(<<"src", "/", "m01.py">>), (<<"src", "/", "m02.py">>), (<<"src", "/", "m03.py">>),
    (<<"src", "/", "m04.py">>), (<<"src", "/", "m05.py">>), (<<"src", "/", "m06.py">>),
    (<<"src", "/", "m07.py">>), (<<"src", "/", "m08.py">>), (<<"src", "/", "m09.py">>),
    (<<"src", "/", "m10.py">>), (<<"src", "/", "m11.py">>)>>

\* a plan of `total` independent tasks, the first `high` of them of risk
\* "high", the first one naming `paths`
StubPlan(high, total, paths) ==
  [nodes |-> [i \in 1..total |->
                TaskNode(StubIds[i], <<>>, IF i <= high THEN "high" ELSE "low",
                         IF i = 1 THEN paths ELSE FewFiles)],
   edges |-> <<>>,
   total_tasks |-> total]

StubPlans ==
  {StubPlan(h, t, f) : h \in {2, 3}, t \in {3, 6}, f \in {FewFiles, ManyFiles}}

InitSafety ==
  /\ config \in Configs
  /\ env \in Envs
  /\ backup_location = 0
  /\ tree \in {[file |-> Content(TRUE, e, {}), cache |-> env.cwd_in_repo,
                  pycache |-> FALSE] : e \in BOOLEAN}
  /\ git \in {[branch |-> Main, branches |-> {Main}, has_origin |-> o, pushed |-> {}] :
                o \in BOOLEAN}
  /\ backups = <<>>
  /\ phase = IF config.safety_checks THEN "SAFETY_CHECK" ELSE "BACKUP_AND_BRANCH"
  /\ \E p \in StubPlans :
       run = [NewRun(GoalDocs) EXCEPT
                !.plan = p,
                !.repo_files = IF env.cwd_in_repo THEN <<PA>> ELSE <<>>,
                !.phases = <<"ANALYZE", "PLAN">>]
  /\ result = NoExecutionResult
  /\ ncalls = 1
  /\ EditIdle
  /\ LoopIdle
  /\ PlanIdle
  /\ ConsumerIdle

NextSafety ==
  \/ PerformSafetyChecks
  \/ \E f \in {"none", "mkdtemp", "copytree"} : CreateBackupAndBranch(f)
  \/ \E f \in {"none", "read", "write"} : ExecuteTasks(f)
  \/ ValidateAndFinalize
  \/ \E ok \in BOOLEAN : CreatePullRequest(ok)
  \/ \E f \in {"none", "rmtree", "copy"} : HandleException(f)

SpecSafety == InitSafety /\ [][NextSafety]_vars

(***************************************************************************)
(* SpecTasks: _execute_tasks on every plan, for every outcome of its tasks *)
(***************************************************************************)
\* the goals with every choice of the keywords _decompose_goal looks for
KeywordGoals == {Goal(TRUE, ws, "goal") : ws \in SUBSET {"test", "fix", "add"}}

\* WorkPlanner.max_tasks: any int, from a negative one to the default of
\* max_tasks_per_run
TaskLimits == -1..5

TaskIds ==
  {"analyze_requirements", "implement_tests", "fix_implementation",
   "implement_feature", "validate_changes"}

Outcomes == {"ok", "fail", "raise"}

InitTasks ==
  /\ loop \in {[pc |-> "idle", plan |-> Plan(g, <<PA>>, m), outcomes |-> o,
                 out |-> NoTasksOut] :
                  g \in KeywordGoals, m \in TaskLimits, o \in [TaskIds -> Outcomes]}
  /\ EditIdle
  /\ AutoIdle
  /\ PlanIdle
  /\ ConsumerIdle

NextTasks == ExecuteTasksCall

SpecTasks == InitTasks /\ [][NextTasks]_vars

(***************************************************************************)
(* SpecPlanner: plan calls on two WorkPlanner instances                    *)
(***************************************************************************)
Seeds == {[given |-> FALSE, value |-> 0], [given |-> TRUE, value |-> 7]}

\* repo_intel of the indexer: the same files in two orders, or none
RepoIntels ==
  {RepoIntel(<<PA, PU>>, <<"apply">>), RepoIntel(<<PU, PA>>, <<"apply">>)}

\* the second instance: constructed like the first, or with another seed,
\* or with the max_tasks Autopilot passes by default
SecondPlanners(max_tasks) ==
  {WorkPlanner(max_tasks, s) : s \in Seeds}
    \cup {WorkPlanner(5, [given |-> FALSE, value |-> 0])}

InitPlanner ==
  /\ \E max_tasks \in TaskLimits :
       \E second \in SecondPlanners(max_tasks) :
         planning = [planners |-> <<WorkPlanner(max_tasks, [given |-> FALSE, value |-> 0]),
                                    second>>,
                     clock |-> 0, prev |-> NoPlanCall, last |-> NoPlanCall]
  /\ ConsumerIdle
  /\ LoopIdle
  /\ EditIdle
  /\ AutoIdle

NextPlanner ==
  \E i \in 1..2, goal \in KeywordGoals, repo_intel \in RepoIntels :
    PlanCall(i, goal, repo_intel)

SpecPlanner == InitPlanner /\ [][NextPlanner]_vars

(***************************************************************************)
(* SpecGraph: a caller serializes a graph plan returned, reads it back,    *)
(* and asks test_plan for its tests                                        *)
(***************************************************************************)
InitGraph ==
  /\ \E max_tasks \in TaskLimits, goal \in KeywordGoals, repo_intel \in RepoIntels :
       consumer = Holding(PlanAt(WorkPlanner(max_tasks, [given |-> FALSE, value |-> 0]),
                                 goal, repo_intel, 1))
  /\ PlanIdle
  /\ LoopIdle
  /\ EditIdle
  /\ AutoIdle

NextGraph ==
  \/ JsonDumps
  \/ JsonLoads
  \/ TestPlanCall

SpecGraph == InitGraph /\ [][NextGraph]_vars

(***************************************************************************)
(* Vocabulary of the claims                                                *)
(***************************************************************************)
CallPatches == ParseUnifiedDiff(call.diff).patches

RealApply == pc = "returned" /\ call.op = "apply_patch" /\ ~call.dry_run

\* the path of the file system that a path of the patch names
FullPath(p) == JoinPath(cfg.repo_path, p)

\* the lines of file p of the patch in file system fs ([] when it is absent)
LinesOf(fs, p) == fs[FullPath(p)].c

\* every file the patch touches is in fs2 what it is in fs1
TouchedSame(fs1, fs2, patches) ==
  \A i \in 1..Len(patches) : fs1[FullPath(patches[i].path)] = fs2[FullPath(patches[i].path)]

\* the body of a hunk as its header counts delimit it: the longest prefix of
\* its lines with at most old_count old and new_count new lines
RECURSIVE BodyLen(_, _, _, _)
BodyLen(h, i, old, new) ==
  IF i > Len(h.lines) THEN i - 1
  ELSE LET o == old + (IF h.lines[i].tag \in {" ", "-"} THEN 1 ELSE 0)
           n == new + (IF h.lines[i].tag \in {" ", "+"} THEN 1 ELSE 0)
       IN  IF o > h.old_count \/ n > h.new_count THEN i - 1
           ELSE BodyLen(h, i + 1, o, n)

Body(h) == SubSeq(h.lines, 1, BodyLen(h, 1, 0, 0))

\* the context and removed lines of a body, in order
OldLines(body) == SelectSeq(body, LAMBDA l : l.tag \in {" ", "-"})

\* some context or removed line of the lines differs from the line of content
\* it addresses, the first one addressing line old_start
Mismatch(content, old_start, lines) ==
  LET old == OldLines(lines)
  IN  \E k \in 1..Len(old) :
        LET n == old_start + k - 1
        IN  n < 1 \/ n > Len(content) \/ content[n].txt /= old[k].txt

PatchMismatch(fs, patches) ==
  \E i \in 1..Len(patches) : \E j \in 1..Len(patches[i].hunks) :
    Mismatch(LinesOf(fs, patches[i].path), patches[i].hunks[j].old_start,
             patches[i].hunks[j].lines)

RECURSIVE NewStartOf(_, _)
\* where hunk j of the hunks of one file lands in the new file: its old_start
\* moved by what the hunks before it add and remove
NewStartOf(hunks, j) ==
  IF j = 1 THEN (IF hunks[1].old_start = 0 THEN 1 ELSE hunks[1].old_start)
  ELSE NewStartOf(hunks, j - 1) + hunks[j - 1].new_count - hunks[j - 1].old_start
       + hunks[j].old_start - hunks[j - 1].old_count

\* a valid diff for fs: the hunks of a file are in file order and do not
\* overlap; every hunk has as many old and new lines as its header says, has
\* a context or removed line at old_start >= 1 (or creates the file from line
\* 0), states where it lands, and its old lines are the lines of the file
ValidPatch(fs, patches) ==
  /\ patches /= <<>>
  /\ \A i \in 1..Len(patches) :
       /\ patches[i].hunks /= <<>>
       /\ \A j \in 1..Len(patches[i].hunks) :
            LET h == patches[i].hunks[j]
            IN  /\ Body(h) /= <<>>
                /\ Len(OldLines(Body(h))) = h.old_count
                /\ Len(ExpectedLines([lines |-> Body(h)])) = h.new_count
                /\ \/ h.old_start >= 1 /\ h.old_count >= 1
                   \/ /\ h.old_start = 0 /\ h.old_count = 0 /\ j = 1
                      /\ LinesOf(fs, patches[i].path) = <<>>
                /\ h.new_start = NewStartOf(patches[i].hunks, j)
                /\ j > 1 => patches[i].hunks[j - 1].old_start
                              + patches[i].hunks[j - 1].old_count <= h.old_start
                /\ ~Mismatch(LinesOf(fs, patches[i].path), h.old_start, Body(h))

(***************************************************************************)
(* C1: a real application of a patch with a hunk whose context or removed  *)
(* line differs from the file line it addresses (or addresses a line past  *)
(* the end) returns conflict or error and leaves every touched file as it  *)
(* was.                                                                    *)
(***************************************************************************)
C1_ConflictSafety ==
  (RealApply /\ ParseUnifiedDiff(call.diff).ok /\ PatchMismatch(pre.files, CallPatches))
    => /\ res.status \in {"conflict", "error"}
       /\ TouchedSame(pre.files, files, CallPatches)

(***************************************************************************)
(* C2: after apply_patch(diff, dry_run=False) returned success for a valid *)
(* diff, applying the same diff again leaves every file as it was and      *)
(* returns idempotent = true.                                              *)
(***************************************************************************)
C2_PatchIdempotence ==
  (RealApply /\ call.again /\ ValidPatch(earlier[1].pre.files, CallPatches))
    => res.idempotent /\ files = pre.files

(***************************************************************************)
(* C3: when a file of the patch matches a blocked glob or no allowed glob, *)
(* or the patch has more files or more bytes of changed lines than the     *)
(* limits, apply_patch (dry-run or not) returns blocked with no file       *)
(* touched, and nothing is written, created or backed up.                  *)
(***************************************************************************)
\* the bytes of the added and removed lines
ChangedBytes(patches) ==
  SumSeq([i \in 1..Len(patches) |->
            SumSeq([j \in 1..Len(patches[i].hunks) |->
                      LET ch == SelectSeq(patches[i].hunks[j].lines,
                                          LAMBDA l : l.tag \in {"+", "-"})
                      IN  SumSeq([k \in 1..Len(ch) |-> Len(ch[k].txt)])])])

BreaksGuardrail(g, patches) ==
  \/ \E i \in 1..Len(patches) :
       \/ \E pat \in g.blocked_paths : FnMatch(patches[i].path, pat)
       \/ \A pat \in g.allowed_paths : ~FnMatch(patches[i].path, pat)
  \/ Len(patches) > g.max_files_per_patch
  \/ ChangedBytes(patches) > g.max_total_patch_bytes

NothingWritten ==
  /\ files = pre.files
  /\ dirs = pre.dirs
  /\ backup_dir = pre.bdir
  /\ ~res.made_backup

C3_GuardrailAllOrNothing ==
  (pc = "returned" /\ call.op = "apply_patch" /\ ParseUnifiedDiff(call.diff).ok
     /\ BreaksGuardrail(cfg.write_guardrails, CallPatches))
    => res.status = "blocked" /\ res.files_touched = {} /\ NothingWritten

\* a real application of a two-file patch was blocked although one of its
\* files passes every guardrail and would have been changed
C3_Witness ==
  /\ RealApply /\ res.status = "blocked"
  /\ Len(CallPatches) = 2
  /\ \E i \in 1..2 :
       /\ ~BreaksGuardrail(cfg.write_guardrails, <<CallPatches[i]>>)
       /\ pre.files[FullPath(CallPatches[i].path)].exists
       /\ ~HunkAlreadyApplied(LinesOf(pre.files, CallPatches[i].path),
                              CallPatches[i].hunks[1])

(***************************************************************************)
(* C4: when a real application by an engine that keeps backups returns     *)
(* conflict or error, every file the patch touches is what it was before   *)
(* the call (content and existence).                                       *)
(***************************************************************************)
C4_ApplyAllOrNothing ==
  (RealApply /\ cfg.conflict_resolution.backup_on_conflict
     /\ res.status \in {"conflict", "error"})
    => TouchedSame(pre.files, files, CallPatches)

(***************************************************************************)
(* C5: apply_patch(diff, dry_run=True) and get_patch_preview(diff) leave   *)
(* every file and directory as it was and make no backup directory.        *)
(***************************************************************************)
ReadOnlyCall ==
  pc = "returned" /\ (call.op = "get_patch_preview" \/ (call.op = "apply_patch" /\ call.dry_run))

C5_ReadOnlyNeverWrites == ReadOnlyCall => NothingWritten

\* a dry run reported success for a patch that a real application would write
C5_Witness ==
  /\ ReadOnlyCall /\ call.op = "apply_patch"
  /\ res.status = "success" /\ ~res.idempotent
  /\ \E names \in ListdirOrders(call.diff) :
       ApplyPatchCall(pre, cfg, call.diff, FALSE, call.fault, names).w.files /= pre.files

(***************************************************************************)
(* C6: apply_patch always returns an EditResult whose status is success,   *)
(* conflict, error or blocked: no exception leaves the call.               *)
(***************************************************************************)
C6_NoExceptionFromApplyPatch ==
  (pc = "returned" /\ call.op = "apply_patch")
    => res.status \in {"success", "conflict", "error", "blocked"}

(***************************************************************************)
(* Vocabulary of the claims about execute_goal                             *)
(***************************************************************************)
\* the phases execute_goal can be in, and the two states between calls
Phases ==
  {"idle", "ANALYZE", "PLAN", "SAFETY_CHECK", "BACKUP_AND_BRANCH", "EXECUTE",
   "FINALIZE", "CREATE_PR", "EXCEPT", "returned"}

\* the call in progress made a backup directory
MadeBackup == Len(backups) > run.start.backups

\* the call in progress assigned backup_location
OwnBackup == backup_location > run.start.backups

(***************************************************************************)
(* C7: execute_goal never ends as an exception; when an exception was      *)
(* raised in a phase the call returns success = false with no task counted *)
(* and the exception text as its only error, the rollback was attempted if *)
(* backup_location was set, and the result is the same whether the         *)
(* rollback worked or failed.                                              *)
(***************************************************************************)
C7_ExecuteGoalNeverRaises ==
  /\ phase \in Phases
  /\ (phase = "returned" /\ run.exc /= "none")
       => /\ result = ExecutionResult(FALSE, "Execution failed with error", 0, 0,
                                      <<run.exc>>)
          /\ backup_location /= 0 => run.rollback /= "none"

\* a call returned after an exception whose rollback failed
C7_Witness ==
  phase = "returned" /\ run.exc /= "none" /\ run.rollback = "failed"

(***************************************************************************)
(* C8: when SAFETY_CHECK runs on a working tree that is not clean, the     *)
(* next step of the call is its return, with success = false and no task   *)
(* counted, and the call has made no backup directory, created no branch,  *)
(* pushed nothing and run no task.                                         *)
(***************************************************************************)
C8_SafetyGate ==
  [][(phase = "SAFETY_CHECK" /\ config.safety_checks /\ ~IsClean(env, tree))
       => /\ phase' = "returned"
          /\ ~result'.success
          /\ result'.tasks_completed = 0 /\ result'.tasks_failed = 0
          /\ Len(backups') = run.start.backups
          /\ backup_location' = run.start.backup_location
          /\ git' = run.start.git
          /\ tree'.file = run.start.tree.file
          /\ Range(run'.phases) \subseteq {"ANALYZE", "PLAN", "SAFETY_CHECK"}]_vars

\* a call on a repository with an uncommitted edit was stopped by the gate
C8_Witness ==
  /\ phase = "returned"
  /\ result.message = "Repository has uncommitted changes"
  /\ tree.file.edited

(***************************************************************************)
(* C9: a call enters the rollback only after it made its own backup, and a *)
(* call that ends before BACKUP_AND_BRANCH leaves the tracked file and the *)
(* branch as they were when it started, whatever earlier calls did.        *)
(***************************************************************************)
C9_RollbackOnlyAfterOwnBackup ==
  phase = "returned"
    => /\ run.rollback /= "none" => OwnBackup
       /\ "BACKUP_AND_BRANCH" \notin Range(run.phases)
            => tree.file = run.start.tree.file /\ git = run.start.git

(***************************************************************************)
(* C10: when a call with backups enabled returns success = true, the       *)
(* backup directory it made is gone and backup_location is None; when a    *)
(* call ends in rollback, backup_location is None afterwards; no call      *)
(* starts with backup_location set.                                        *)
(***************************************************************************)
C10_BackupLivesOneCall ==
  /\ (phase = "returned" /\ config.backup_enabled /\ result.success)
       => ~MadeBackup /\ backup_location = 0
  /\ (phase = "returned" /\ run.rollback /= "none") => backup_location = 0
  /\ phase = "ANALYZE" => backup_location = 0

(***************************************************************************)
(* C11: the phases a call enters are in the order ANALYZE, PLAN,           *)
(* SAFETY_CHECK, BACKUP_AND_BRANCH, EXECUTE, FINALIZE, CREATE_PR (the      *)
(* except clause last); tasks run only after BACKUP_AND_BRANCH made the    *)
(* branch of the goal, the finalization only after the tasks succeeded,    *)
(* the pull request only after a successful finalization with              *)
(* auto_create_pr; a call whose branch creation fails returns success =    *)
(* false without running a task.                                           *)
(***************************************************************************)
PhaseOrder ==
  <<"ANALYZE", "PLAN", "SAFETY_CHECK", "BACKUP_AND_BRANCH", "EXECUTE", "FINALIZE",
    "CREATE_PR", "EXCEPT">>

PhaseRank(p) == CHOOSE i \in 1..Len(PhaseOrder) : PhaseOrder[i] = p

\* the branch create_feature_branch makes for the goal of the call
GoalBranch == <<BranchPrefix, run.goal.slug>>

BranchMade == GoalBranch \in git.branches \ run.start.git.branches

C11_PhaseOrder ==
  /\ Range(run.phases) \subseteq Range(PhaseOrder)
  /\ \A i, j \in 1..Len(run.phases) :
       i < j => PhaseRank(run.phases[i]) < PhaseRank(run.phases[j])
  /\ (phase = "EXECUTE" \/ "EXECUTE" \in Range(run.phases))
       => "BACKUP_AND_BRANCH" \in Range(run.phases) /\ BranchMade
  /\ (phase = "FINALIZE" \/ "FINALIZE" \in Range(run.phases))
       => "EXECUTE" \in Range(run.phases) /\ run.execution_result.success
  /\ (phase = "CREATE_PR" \/ "CREATE_PR" \in Range(run.phases))
       => /\ "FINALIZE" \in Range(run.phases)
          /\ run.finalize = "No changes to commit"
          /\ config.auto_create_pr
  /\ (phase = "returned" /\ "BACKUP_AND_BRANCH" \in Range(run.phases)
        /\ run.exc = "none" /\ ~BranchMade)
       => ~result.success /\ "EXECUTE" \notin Range(run.phases)

\* a call went through all seven phases
C11_Witness ==
  /\ phase = "returned"
  /\ run.phases = SubSeq(PhaseOrder, 1, 7)

\* a call returned because the branch of its goal existed already
C11_WitnessBranch ==
  /\ phase = "returned"
  /\ result.message = "Failed to create backup/branch"
  /\ run.phases[Len(run.phases)] = "BACKUP_AND_BRANCH"

(***************************************************************************)
(* C12: when a task of _execute_tasks fails, by a result with success =    *)
(* false or by an exception, the next task in order is run unless the      *)
(* failed task has risk high or it is the second failure; in those two     *)
(* cases no later task is run.                                             *)
(***************************************************************************)
\* task i of the order was run
Attempted(i) == i <= Len(loop.out.attempted)

\* the number of failed tasks among the first i of the order
FailuresUpTo(i) ==
  Cardinality({k \in 1..i : loop.outcomes[loop.out.order[k]] /= "ok"})

\* the halt policy stops the loop after task i
Halts(i) ==
  \/ NodeOf(loop.plan.nodes, loop.out.order[i]).risk = "high"
  \/ FailuresUpTo(i) >= 2

C12_HaltPolicy ==
  loop.pc = "returned"
    => \A i \in 1..(Len(loop.out.order) - 1) :
         (Attempted(i) /\ loop.outcomes[loop.out.order[i]] /= "ok")
           => (Attempted(i + 1) <=> ~Halts(i))

(***************************************************************************)
(* C13: the result of _execute_tasks has success = true exactly when no    *)
(* task failed and at least one completed, the two counts being those of   *)
(* the tasks run; a plan without tasks gives success = false.              *)
(***************************************************************************)
C13_TasksSuccess ==
  loop.pc = "returned"
    => LET ran == Range(loop.out.attempted)
           ok  == {t \in ran : loop.outcomes[t] = "ok"}
       IN  /\ loop.out.tasks_completed = Cardinality(ok)
           /\ loop.out.tasks_failed = Cardinality(ran \ ok)
           /\ loop.out.success <=> (ran /= {} /\ ran = ok)
           /\ loop.plan.nodes = <<>> => ~loop.out.success

\* the call for a plan without tasks returned
C13_Witness == loop.pc = "returned" /\ loop.plan.nodes = <<>>

(***************************************************************************)
(* C14: a call that reaches the finalization with pending changes in the   *)
(* working tree returns a result that carries the commit_sha and the       *)
(* branch_created of the commit it made; with no pending change the        *)
(* finalization says "No changes to commit" and the result carries no      *)
(* commit.                                                                 *)
(***************************************************************************)
C14_FinalizeCommits ==
  (phase = "returned" /\ "FINALIZE" \in Range(run.phases))
    => IF ~IsClean(env, tree)
       THEN result.commit_sha /= "none" /\ result.branch_created = git.branch
       ELSE run.finalize = "No changes to commit" /\ result.commit_sha = "none"

(***************************************************************************)
(* C15: in a pull request step the push is the first remote operation; the *)
(* pull request API is called exactly when the push succeeded; after a     *)
(* failed push the pull request result is a failure and the result of the  *)
(* call has no pr_url.                                                     *)
(***************************************************************************)
C15_PushBeforePr ==
  (phase = "returned" /\ "CREATE_PR" \in Range(run.phases))
    => /\ run.pr.calls /= <<>> /\ run.pr.calls[1] = "push"
       /\ \A i \in 2..Len(run.pr.calls) : run.pr.calls[i] = "create_pr"
       /\ ("create_pr" \in Range(run.pr.calls)) <=> run.pr.push
       /\ run.pr.push <=> git.has_origin
       /\ ~run.pr.push => (~run.pr.pr /\ result.pr_url = "none")

C15_Witness ==
  /\ phase = "returned" /\ "CREATE_PR" \in Range(run.phases)
  /\ ~run.pr.push /\ run.pr.calls = <<"push">>

C15_WitnessPr ==
  /\ phase = "returned" /\ "CREATE_PR" \in Range(run.phases)
  /\ run.pr.push /\ run.pr.calls = <<"push", "create_pr">> /\ result.pr_url = "url"

(***************************************************************************)
(* C16: a rollback that returns True leaves the tracked file with the      *)
(* content the backup directory holds for it, and the repository on the    *)
(* branch the backup recorded.                                             *)
(***************************************************************************)
C16_RollbackRestoresBackup ==
  (phase = "returned" /\ run.rollback = "done" /\ backup_location /= 0)
    => LET b == backups[backup_location]
       IN  /\ (b.repo_exists /\ b.repo.file.exists) => tree.file = b.repo.file
           /\ (b.state_exists /\ b.branch \in git.branches) => git.branch = b.branch

\* the ids of the nodes of a graph, in the order of the dict
NodeIds(nodes) == [i \in 1..Len(nodes) |-> nodes[i].id]

\* the two calls were made with the same seed, max_tasks, goal and repo_intel
SameInputs(a, b) ==
  /\ planning.planners[a.self] = planning.planners[b.self]
  /\ a.goal = b.goal
  /\ a.repo_intel = b.repo_intel

C18_TopologicalOrder ==
  loop.pc = "returned"
    => LET order == loop.out.order
           ids   == NodeIds(loop.plan.nodes)
       IN  /\ Len(order) = Len(ids)
           /\ \A n \in Range(ids) : Cardinality({i \in 1..Len(order) : order[i] = n}) = 1
           /\ \A k \in 1..Len(loop.plan.edges) :
                \E i, j \in 1..Len(order) :
                  /\ i < j
                  /\ order[i] = loop.plan.edges[k].from
                  /\ order[j] = loop.plan.edges[k].to

C18_Witness ==
  /\ loop.pc = "returned"
  /\ Len(loop.out.order) = 5
  /\ Len(loop.plan.edges) = 6

RECURSIVE TransitiveClosure(_, _)
\* the pairs joined by a path of at most n + 1 steps of R
TransitiveClosure(R, n) ==
  IF n = 0 THEN R
  ELSE LET T == TransitiveClosure(R, n - 1)
       IN  T \cup {<<p[1][1], p[2][2]>> : p \in {q \in T \X R : q[1][2] = q[2][1]}}

\* the dependency relation of a graph, dependency first: from the
\* dependencies of the nodes and from the edges
DependsOn(out) ==
  UNION {{<<d, out.nodes[i].id>> : d \in Range(out.nodes[i].dependencies)} :
           i \in 1..Len(out.nodes)}
    \cup {<<e.from, e.to>> : e \in Range(out.edges)}

(***************************************************************************)
(* C19: in the graph of every plan, truncated or not, every dependency of  *)
(* a node and both ends of every edge are nodes of the graph, and no node  *)
(* depends on itself through any chain of dependencies.                    *)
(***************************************************************************)
C19_GraphWellFormed ==
  planning.last.self /= 0
    => LET out == planning.last.out
           ids == Range(NodeIds(out.nodes))
       IN  /\ \A i \in 1..Len(out.nodes) : Range(out.nodes[i].dependencies) \subseteq ids
           /\ \A e \in Range(out.edges) : e.from \in ids /\ e.to \in ids
           /\ \A p \in TransitiveClosure(DependsOn(out), Len(out.nodes)) : p[1] /= p[2]

C19_Witness ==
  /\ planning.last.self /= 0
  /\ planning.planners[planning.last.self].max_tasks = 2
  /\ planning.last.out.total_tasks = 2
  /\ planning.last.out.edges /= <<>>

\* the keyword class that makes _decompose_goal emit the task
KeywordOf(task_id) ==
  CASE task_id = "implement_tests"    -> "test"
    [] task_id = "fix_implementation" -> "fix"
    [] task_id = "implement_feature"  -> "add"

ImplementationTasks == <<"implement_tests", "fix_implementation", "implement_feature">>

(***************************************************************************)
(* C20: in every plan analyze_requirements has no dependencies; each of    *)
(* implement_tests, fix_implementation and implement_feature depends       *)
(* exactly on analyze_requirements; the dependencies of validate_changes   *)
(* are the tasks emitted between analyze_requirements and itself, in the   *)
(* order tests, fix, feature, without analyze_requirements.                *)
(***************************************************************************)
C20_DecompositionDependencies ==
  planning.last.self /= 0
    => LET made   == planning.last
           nodes  == made.out.nodes
           middle == SelectSeq(ImplementationTasks,
                               LAMBDA t : KeywordOf(t) \in made.goal.words)
       IN  \A i \in 1..Len(nodes) :
             LET n == nodes[i]
             IN  /\ (i = 1) <=> (n.id = "analyze_requirements")
                 /\ n.id = "analyze_requirements" => n.dependencies = <<>>
                 /\ n.id \in Range(ImplementationTasks)
                      => n.dependencies = <<"analyze_requirements">>
                 /\ n.id = "validate_changes"
                      => /\ n.dependencies = [k \in 1..(i - 2) |-> nodes[k + 1].id]
                         /\ n.dependencies = middle
                         /\ "analyze_requirements" \notin Range(n.dependencies)

C20_Witness ==
  /\ planning.last.self /= 0
  /\ planning.last.goal.words = {"test", "fix", "add"}
  /\ planning.last.out.total_tasks = 5
  /\ Len(planning.last.out.nodes[5].dependencies) = 3

\* the number of tasks _decompose_goal emits for the goal before it truncates
NumEmitted(goal) == 2 + Cardinality(goal.words \cap {"test", "fix", "add"})

(***************************************************************************)
(* C21, as stated: the graph of every plan contains an                     *)
(* analyze_requirements node and a validate_changes node.                  *)
(***************************************************************************)
C21_AnalyzeAndValidateAlways ==
  planning.last.self /= 0
    => {"analyze_requirements", "validate_changes"}
         \subseteq Range(NodeIds(planning.last.out.nodes))

(***************************************************************************)
(* C21, amended: the graph of a plan contains analyze_requirements when    *)
(* max_tasks is at least 1, and validate_changes when max_tasks is at      *)
(* least the number of tasks the decomposition emits for the goal.         *)
(***************************************************************************)
C21_AnalyzeAndValidateWithinLimit ==
  planning.last.self /= 0
    => LET made == planning.last
           ids  == Range(NodeIds(made.out.nodes))
           max_tasks == planning.planners[made.self].max_tasks
       IN  /\ max_tasks >= 1 => "analyze_requirements" \in ids
           /\ max_tasks >= NumEmitted(made.goal) => "validate_changes" \in ids

C21_Witness ==
  /\ planning.last.self /= 0
  /\ planning.last.goal.words = {}
  /\ planning.planners[planning.last.self].max_tasks = 2
  /\ NodeIds(planning.last.out.nodes) = <<"analyze_requirements", "validate_changes">>

\* the ids _decompose_goal emits for the goal, in emission order
EmittedIds(goal) ==
  <<"analyze_requirements">>
    \o SelectSeq(ImplementationTasks, LAMBDA t : KeywordOf(t) \in goal.words)
    \o <<"validate_changes">>

\* total_tasks and the nodes of the last plan are the first n emitted tasks
IsPrefixOfEmitted(made, n) ==
  /\ made.out.total_tasks = n
  /\ Len(made.out.nodes) = n
  /\ NodeIds(made.out.nodes) = SubSeq(EmittedIds(made.goal), 1, n)

C23_SerializationRoundTrip ==
  /\ consumer.document.state /= "raised"
  /\ consumer.restored.state = "read"
       => /\ PyEq(consumer.restored.value, GraphValue(consumer.graph))
          /\ PyEq(GraphValue(consumer.graph), consumer.restored.value)

C23_Witness ==
  /\ consumer.restored.state = "read"
  /\ consumer.graph.total_tasks = 5
  /\ Len(consumer.graph.edges) = 6

\* the positions of the specs with that name
SpecsNamed(specs, name) == {i \in 1..Len(specs) : specs[i].name = name}

(***************************************************************************)
(* C24: for the graph of every plan, test_plan returns exactly one         *)
(* completion spec per node, exactly one integration spec per node of risk *)
(* high and none for the others, and exactly one spec whose name contains  *)
(* "overall", which is the last: |nodes| + |high-risk nodes| + 1 specs.    *)
(***************************************************************************)
C24_TestPlanSpecs ==
  consumer.tests.state = "made"
    => LET specs == consumer.tests.specs
           nodes == consumer.graph.nodes
           high  == {i \in 1..Len(nodes) : nodes[i].risk = "high"}
       IN  /\ \A i \in 1..Len(nodes) :
                /\ Cardinality(SpecsNamed(specs, <<"test", nodes[i].id, "completion">>)) = 1
                /\ Cardinality(SpecsNamed(specs, <<"test", nodes[i].id, "integration">>))
                     = IF i \in high THEN 1 ELSE 0
           /\ {i \in 1..Len(specs) : "overall" \in Range(specs[i].name)} = {Len(specs)}
           /\ Len(specs) = Len(nodes) + Cardinality(high) + 1

C24_Witness ==
  /\ consumer.tests.state = "made"
  /\ \E i \in 1..Len(consumer.graph.nodes) : consumer.graph.nodes[i].risk = "high"
  /\ Len(consumer.tests.specs) = 7


\* a line that starts with "@@" and is no hunk header
MalformedHunkHeader(diff) == \E i \in 1..Len(diff) : diff[i].k = "@@bad"

\* a line that starts with "@@" before any "+++" line that names a file
HunkBeforeFileHeader(diff) ==
  \E i \in 1..Len(diff) :
    /\ diff[i].k \in {"@@", "@@bad"}
    /\ \A j \in 1..(i - 1) : diff[j].k /= "+++" \/ diff[j].path = DevNull

(***************************************************************************)
(* C25: parse errors come before any mutation. apply_patch of a diff with  *)
(* a malformed "@@" hunk header, or with a hunk header before any "+++"    *)
(* file header, returns status "error" with no file touched, writes no     *)
(* file and makes no backup, whether dry_run is True or False.             *)
(***************************************************************************)
C25_ParseErrorsBeforeMutation ==
  (pc = "returned" /\ call.op = "apply_patch"
     /\ (MalformedHunkHeader(call.diff) \/ HunkBeforeFileHeader(call.diff)))
    => /\ res.status = "error"
       /\ res.files_touched = {}
       /\ NothingWritten

\* a real application of a diff whose first section is a well-formed hunk for
\* a file that exists, followed by a section with a malformed hunk header
C25_Witness ==
  /\ RealApply
  /\ MalformedHunkHeader(call.diff)
  /\ \E i \in 1..Len(call.diff) : call.diff[i].k = "@@"
  /\ pre.files[FullPath(PA)].exists
  /\ res.status = "error"

\* a dry run of a diff whose first hunk header has no file header before it
C25_WitnessDryRun ==
  /\ pc = "returned" /\ call.op = "apply_patch" /\ call.dry_run
  /\ HunkBeforeFileHeader(call.diff)
  /\ res.status = "error"


\* the number of lines of the diff with the given prefix that stand in a hunk,
\* that is, after a hunk header
HunkLinesOf(diff, tag) ==
  Cardinality({i \in 1..Len(diff) :
                 /\ diff[i].k = tag
                 /\ \E j \in 1..(i - 1) : diff[j].k = "@@"})

(***************************************************************************)
(* C26: for every diff that parses, get_patch_preview(diff) reports as     *)
(* total_additions the number of "+"-prefixed lines of the diff's hunks    *)
(* and as total_deletions the number of their "-"-prefixed lines.          *)
(***************************************************************************)
C26_PreviewCounts ==
  (pc = "returned" /\ call.op = "get_patch_preview" /\ ParseUnifiedDiff(call.diff).ok)
    => /\ res.total_additions = HunkLinesOf(call.diff, "+")
       /\ res.total_deletions = HunkLinesOf(call.diff, "-")


\* the context and added lines of hunk h are the lines of content that start
\* at line new_start
HunkInPlace(content, h) ==
  LET expected == ExpectedLines(h)
  IN  \A k \in 1..Len(expected) :
        /\ h.new_start - 1 + k \in 1..Len(content)
        /\ content[h.new_start - 1 + k].txt = expected[k]

\* every file of the patch existed and could be read when the call was made,
\* and held every hunk's context and added lines at the hunk's new_start
PatchInPlace ==
  \A i \in 1..Len(CallPatches) :
    LET full == FullPath(CallPatches[i].path)
    IN  /\ pre.files[full].exists
        /\ ~ReadRaises(call.fault, full)
        /\ \A j \in 1..Len(CallPatches[i].hunks) :
             HunkInPlace(pre.files[full].c, CallPatches[i].hunks[j])

(***************************************************************************)
(* C27: apply_patch looks whether the patch is already applied after the   *)
(* guardrails and before the dry run or the real application. For a diff   *)
(* that parses and passes the guardrails: when every hunk of every file    *)
(* finds its context and added lines in the file at its target offset, the *)
(* call returns status "success" with idempotent true, writes nothing and  *)
(* makes no backup, with dry_run True and with dry_run False; when a file  *)
(* is missing or a hunk does not match, idempotent is false. A patch that  *)
(* breaks a guardrail is blocked even when it is already applied.          *)
(***************************************************************************)
C27_IdempotencyCheck ==
  (pc = "returned" /\ call.op = "apply_patch" /\ ParseUnifiedDiff(call.diff).ok)
    => IF BreaksGuardrail(cfg.write_guardrails, CallPatches)
       THEN res.status = "blocked" /\ ~res.idempotent
       ELSE IF PatchInPlace
       THEN res.status = "success" /\ res.idempotent /\ NothingWritten
       ELSE ~res.idempotent

\* a real application of a patch of two files that both hold the hunks' lines
\* already: nothing is written
C27_Witness ==
  /\ RealApply /\ ParseUnifiedDiff(call.diff).ok
  /\ ~BreaksGuardrail(cfg.write_guardrails, CallPatches)
  /\ Len(CallPatches) = 2
  /\ \A i \in 1..2 : \E j \in 1..Len(CallPatches[i].hunks) :
        \E k \in 1..Len(CallPatches[i].hunks[j].lines) :
          CallPatches[i].hunks[j].lines[k].tag = "+"
  /\ PatchInPlace
  /\ res.idempotent

\* a dry run of a patch that is already applied
C27_WitnessDryRun ==
  /\ pc = "returned" /\ call.op = "apply_patch" /\ call.dry_run
  /\ Len(CallPatches) > 0 /\ PatchInPlace /\ res.idempotent

\* a real application of a patch one of whose files is missing while the
\* other holds its hunk's lines already
C27_WitnessMissing ==
  /\ RealApply /\ ParseUnifiedDiff(call.diff).ok
  /\ ~BreaksGuardrail(cfg.write_guardrails, CallPatches)
  /\ Len(CallPatches) = 2
  /\ \E i \in 1..2 : ~pre.files[FullPath(CallPatches[i].path)].exists
  /\ \E i \in 1..2 :
        /\ pre.files[FullPath(CallPatches[i].path)].exists
        /\ \A j \in 1..Len(CallPatches[i].hunks) :
             HunkInPlace(LinesOf(pre.files, CallPatches[i].path), CallPatches[i].hunks[j])
  /\ ~res.idempotent


\* the lines a hunk puts in the place of its old range: its context lines, as
\* content holds them from line old_start on, and its added lines, in the
\* order of the hunk
NewLines(content, h) ==
  LET kept   == {i \in 1..Len(h.lines) : h.lines[i].tag \in {" ", "+"}}
      at(i)  == Max(h.old_start - 1, 0)
                  + Len(OldLines(SubSeq(h.lines, 1, i)))
      nth(k) == CHOOSE i \in kept : Cardinality({j \in kept : j <= i}) = k
  IN  [k \in 1..Cardinality(kept) |->
         IF h.lines[nth(k)].tag = "+" THEN Line(h.lines[nth(k)].txt)
         ELSE content[at(nth(k))]]

\* content with the old range of h, the lines from old_start on that its
\* context and removed lines name, replaced by the new lines of h
ReplaceOldRange(content, h) ==
  LET start == Max(h.old_start - 1, 0)
  IN  PySlice(content, 0, start) \o NewLines(content, h)
        \o PySlice(content, start + Len(OldLines(h.lines)), Len(content))

\* the lines _apply_patches reads from the file of entry i of the patch
ContentRead(i) ==
  IF pre.files[FullPath(CallPatches[i].path)].exists
  THEN LinesOf(pre.files, CallPatches[i].path) ELSE <<>>

\* a real application that went as far as applying the hunks of a patch of
\* one file
HunksApplied ==
  /\ RealApply /\ ParseUnifiedDiff(call.diff).ok /\ ~res.idempotent
  /\ res.status /= "blocked"
  /\ Len(CallPatches) = 1

(***************************************************************************)
(* C28: for every content and every hunk whose context and removed lines   *)
(* are the lines of content from line old_start on, _apply_single_hunk     *)
(* returns the lines before old_start, then the context and added lines of *)
(* the hunk in hunk order, then the lines after the old range; the lines   *)
(* outside the old range are unchanged and keep their order.               *)
(***************************************************************************)
C28_SingleHunkApplication ==
  (HunksApplied /\ Len(CallPatches[1].hunks) = 1
     /\ ~Mismatch(ContentRead(1), CallPatches[1].hunks[1].old_start,
                  CallPatches[1].hunks[1].lines))
    => ApplySingleHunk(ContentRead(1), CallPatches[1].hunks[1])
         = [c |-> ReplaceOldRange(ContentRead(1), CallPatches[1].hunks[1]),
            exc |-> FALSE]


RECURSIVE InsertAsc(_, _)
\* insert h into a list sorted by old_start ascending, after its equals
InsertAsc(sorted, h) ==
  IF sorted = <<>> THEN <<h>>
  ELSE IF Head(sorted).old_start <= h.old_start
       THEN <<Head(sorted)>> \o InsertAsc(Tail(sorted), h)
       ELSE <<h>> \o sorted

RECURSIVE SortHunksAsc(_, _, _)
SortHunksAsc(acc, hunks, i) ==
  IF i > Len(hunks) THEN acc ELSE SortHunksAsc(InsertAsc(acc, hunks[i]), hunks, i + 1)

RECURSIVE ReplaceFrom(_, _, _, _)
\* replace the old ranges of hunks i.. of a list in file order, where the
\* hunks before i made the content delta lines longer
ReplaceFrom(content, hunks, i, delta) ==
  IF i > Len(hunks) THEN content
  ELSE LET h == hunks[i]
           moved == [h EXCEPT !.old_start = Max(@, 1) + delta]
       IN  ReplaceFrom(ReplaceOldRange(content, moved), hunks, i + 1,
                       delta + Len(ExpectedLines(h)) - Len(OldLines(h.lines)))

\* content with the old range of every hunk, addressed by the line numbers of
\* content, replaced by the new lines of the hunk
ReplaceOldRanges(content, hunks) ==
  ReplaceFrom(content, SortHunksAsc(<<>>, hunks, 1), 1, 0)

\* the line numbers of the context and removed lines of a hunk
OldRange(h) == {Max(h.old_start, 1) + k - 1 : k \in 1..Len(OldLines(h.lines))}

DisjointOldRanges(hunks) ==
  \A i \in 1..Len(hunks) : \A j \in 1..Len(hunks) :
    i /= j => OldRange(hunks[i]) \cap OldRange(hunks[j]) = {}

\* the hunks in the order p gives them
Reordered(hunks, p) == [j \in 1..Len(hunks) |-> hunks[p[j]]]

(***************************************************************************)
(* C29: for every content and every set of hunks whose old ranges are      *)
(* pairwise disjoint and match the content, _apply_hunks_to_content gives  *)
(* the same result whatever the order of the hunks in the diff, and the    *)
(* result is the content with each hunk's old range, addressed by the      *)
(* original line numbers, replaced by the hunk's new lines.                *)
(***************************************************************************)
C29_BottomUpApplication ==
  (HunksApplied
     /\ DisjointOldRanges(CallPatches[1].hunks)
     /\ \A j \in 1..Len(CallPatches[1].hunks) :
          ~Mismatch(ContentRead(1), CallPatches[1].hunks[j].old_start,
                    CallPatches[1].hunks[j].lines))
    => LET hunks == CallPatches[1].hunks
       IN  \A p \in Permutations(1..Len(hunks)) :
             ApplyHunksToContent(ContentRead(1), Reordered(hunks, p))
               = [c |-> ReplaceOldRanges(ContentRead(1), hunks), exc |-> FALSE]


\* a real application that went as far as _apply_patches and returned a result
PatchesApplied ==
  /\ RealApply /\ ParseUnifiedDiff(call.diff).ok
  /\ ~BreaksGuardrail(cfg.write_guardrails, CallPatches)
  /\ ~res.idempotent
  /\ res.status /= "raised"

\* the conflicts the first attempt of the call found
ConflictsFound == ApplyPatches(pre, cfg.repo_path, CallPatches, call.fault).conflicts

\* the conflict is recorded as "path:hunkN" for hunk N of the file path
NamesHunk(c) ==
  /\ c.kind = "hunk"
  /\ \E i \in 1..Len(CallPatches) :
        CallPatches[i].path = c.path /\ c.hunk \in 1..Len(CallPatches[i].hunks)

\* the conflicts that the retry of their hunk did not resolve
ConflictsRemaining ==
  LET a == ApplyPatches(pre, cfg.repo_path, CallPatches, call.fault)
      y == IF cfg.conflict_resolution.split_hunks
           THEN RetryWithSplitHunks(a.w, CallPatches, a.conflicts, call.fault).resolved
           ELSE {}
  IN  SelectSeq(a.conflicts, LAMBDA c : c \notin y)

(***************************************************************************)
(* C30: every conflict found during a real application is recorded under a *)
(* key "path:hunkN" that names the hunk; with split_hunks enabled each     *)
(* conflicting hunk is tried once more on the file as it then is; and      *)
(* apply_patch returns status "success" exactly when no conflict remains   *)
(* after the retry, and otherwise status "conflict" with the conflicts     *)
(* listed.                                                                 *)
(***************************************************************************)
C30_ConflictRecordingAndRetry ==
  PatchesApplied
    => /\ \A k \in 1..Len(ConflictsFound) : NamesHunk(ConflictsFound[k])
       /\ res.status = "success" <=> ConflictsRemaining = <<>>
       /\ res.status /= "success"
            => res.status = "conflict" /\ res.conflicts = ConflictsFound


\* the total size of the added and removed lines of the patch, each with its
\* prefix character as _check_guardrails measures a line
ChangedLineBytes(patches) ==
  SumSeq([i \in 1..Len(patches) |->
            SumSeq([j \in 1..Len(patches[i].hunks) |->
                      LET ch == SelectSeq(patches[i].hunks[j].lines,
                                          LAMBDA l : l.tag \in {"+", "-"})
                      IN  SumSeq([k \in 1..Len(ch) |-> LineBytes(ch[k])])])])

\* the call's patch is rejected under that rule
RejectedFor(rule) ==
  [rule |-> rule, file_path |-> NoPath] \in CheckGuardrails(cfg.write_guardrails, CallPatches)

(***************************************************************************)
(* C31: a patch is rejected for size exactly when the total size of its    *)
(* added and removed lines (context lines do not count) exceeds            *)
(* max_total_patch_bytes, and for file count exactly when it touches more  *)
(* than max_files_per_patch files; at exactly a limit it is not rejected   *)
(* for it.                                                                 *)
(***************************************************************************)
C31_GuardrailLimits ==
  (pc = "returned" /\ call.op = "apply_patch" /\ ParseUnifiedDiff(call.diff).ok)
    => /\ RejectedFor("max_total_patch_bytes")
            <=> ChangedLineBytes(CallPatches) > cfg.write_guardrails.max_total_patch_bytes
       /\ RejectedFor("max_files_per_patch")
            <=> Len(CallPatches) > cfg.write_guardrails.max_files_per_patch
       /\ (RejectedFor("max_total_patch_bytes") \/ RejectedFor("max_files_per_patch"))
            => res.status = "blocked"


\* the tasks of the EXECUTE phase that returned a result with success
TasksCompleted ==
  IF run.execution_result.tasks_failed > 0
  THEN SubSeq(run.tasks.ran, 1, Len(run.tasks.ran) - 1) ELSE run.tasks.ran

\* the files an implement or fix task would change in the tree the phase
\* started with: the repository's Python file when it is among the first
\* three estimated files and does not hold the task's comment yet
WouldChange(task_id) ==
  LET task == NodeOf(run.plan.nodes, task_id)
  IN  IF /\ task_id \in Range(ImplementationTasks)
         /\ PA \in Range(PySlice(task.estimated_files, 0, 3))
         /\ run.tasks.before.file.exists
         /\ task_id \notin run.tasks.before.file.marks
      THEN <<PA>> ELSE <<>>

RECURSIVE WouldChangeAll(_)
WouldChangeAll(ids) ==
  IF ids = <<>> THEN <<>> ELSE WouldChange(Head(ids)) \o WouldChangeAll(Tail(ids))

(***************************************************************************)
(* C32: with config.dry_run = True the tasks of a run (analysis, implement *)
(* or fix, test or validate, generic) write no file of the working tree,   *)
(* and the implement and fix tasks still report in changes_made the files  *)
(* they would change; a run without implement or fix tasks writes no file  *)
(* whatever dry_run is.                                                    *)
(***************************************************************************)
C32_DryRunWritesNothing ==
  run.tasks.done
    => /\ config.dry_run
            => /\ run.tasks.after = run.tasks.before
               /\ run.tasks.all_changes = WouldChangeAll(TasksCompleted)
       /\ (\A i \in 1..Len(run.tasks.ran) :
              run.tasks.ran[i] \notin Range(ImplementationTasks))
            => run.tasks.after = run.tasks.before

\* a dry run whose fix or implement task reported the file it would change
C32_Witness ==
  /\ run.tasks.done /\ config.dry_run
  /\ run.tasks.all_changes /= <<>>
  /\ run.tasks.after = run.tasks.before

\* a run without dry_run whose analysis and validation tasks were the only ones
C32_WitnessAnalysis ==
  /\ run.tasks.done /\ ~config.dry_run
  /\ run.tasks.ran = <<"analyze_requirements", "validate_changes">>


\* the tasks of plan whose risk is "high"
HighRiskTasks(plan) == {i \in 1..Len(plan.nodes) : plan.nodes[i].risk = "high"}

\* the union of the estimated_files of the tasks of plan
EstimatedFiles(plan) ==
  UNION {Range(plan.nodes[i].estimated_files) : i \in 1..Len(plan.nodes)}

PatchMatchesFiles ==
  /\ \A i \in 1..Len(CallPatches) : \A k \in 1..Len(CallPatches) :
        CallPatches[i].path = CallPatches[k].path => i = k
  /\ \A i \in 1..Len(CallPatches) :
        /\ pre.files[FullPath(CallPatches[i].path)].exists
        /\ DisjointOldRanges(CallPatches[i].hunks)
        /\ \A j \in 1..Len(CallPatches[i].hunks) :
             ~Mismatch(ContentRead(i), CallPatches[i].hunks[j].old_start,
                       CallPatches[i].hunks[j].lines)

(***************************************************************************)
(* C34: whenever apply_patch(diff, dry_run=False) returns status "success" *)
(* for a patch whose every hunk finds its context and removed lines in the *)
(* file at old_start, each file of the patch holds after the call the      *)
(* lines it held before with the old range of every hunk replaced by the   *)
(* hunk's context and added lines: removed lines are gone and added lines  *)
(* are present, also for a hunk that only deletes and for a hunk that      *)
(* deletes one of several equal adjacent lines.                            *)
(***************************************************************************)
C34_EndToEndApplication ==
  (RealApply /\ ParseUnifiedDiff(call.diff).ok /\ Len(CallPatches) > 0
     /\ res.status = "success" /\ PatchMatchesFiles)
    => \A i \in 1..Len(CallPatches) :
         /\ files[FullPath(CallPatches[i].path)].exists
         /\ Texts(LinesOf(files, CallPatches[i].path))
              = Texts(ReplaceOldRanges(ContentRead(i), CallPatches[i].hunks))


(***************************************************************************)
(* C35: plan_hash identifies the graph: two plan calls, whatever their     *)
(* goals, repo_intel values, seeds and max_tasks, that return the same     *)
(* plan_hash return the same nodes and the same edges; so do calls whose   *)
(* repo_intel values list the same files in different orders and calls on  *)
(* planners with different max_tasks.                                      *)
(***************************************************************************)
C35_PlanHashIdentifiesGraph ==
  LET a == planning.prev
      b == planning.last
  IN  (a.self /= 0 /\ b.self /= 0 /\ a.out.plan_hash = b.out.plan_hash)
        => /\ a.out.nodes = b.out.nodes
           /\ a.out.edges = b.out.edges


\* VALIDATE_AND_FINALIZE ran in the call that returned and reported a failed
\* status query or a failed commit
FinalizeFailed ==
  run.finalize \in {"Failed to get repository status", "Working tree is not clean"}

(***************************************************************************)
(* C36: when execute_goal returns success=True and the working tree had    *)
(* pending changes when VALIDATE_AND_FINALIZE ran, the commit was created  *)
(* in that call and its sha is in the result; and when the status query or *)
(* the commit of VALIDATE_AND_FINALIZE failed, the result returned has     *)
(* success=False.                                                          *)
(***************************************************************************)
C36_SuccessMeansCommitted ==
  (phase = "returned" /\ run.finalize /= "none")
    => /\ (result.success /\ ~IsClean(env, run.tasks.after))
            => result.commit_sha /= "none"
       /\ FinalizeFailed => ~result.success


\* the dependencies of the k-th task _execute_tasks attempted
DependenciesOfAttempted(k) ==
  Range(NodeOf(loop.plan.nodes, loop.out.attempted[k]).dependencies)

Snapshot == backups[backup_location]

\* the call that returned made its backup and returned a failure
FailedAfterBackup == phase = "returned" /\ ~result.success /\ OwnBackup

\* C38 as claimed: whenever execute_goal returns success=False after its
\* backup was created, the files of the working tree and the checked-out
\* branch are those recorded in the snapshot
C38_FailureRestoresSnapshot ==
  FailedAfterBackup
    => /\ tree.file = Snapshot.repo.file
       /\ tree.cache = Snapshot.repo.cache
       /\ git.branch = Snapshot.branch

(***************************************************************************)
(* C38: when execute_goal returns success=False after its backup was       *)
(* created because tasks failed, the task loop halted or the branch could  *)
(* not be created, no rollback is run: the working tree is as the tasks    *)
(* left it, the branch create_feature_branch checked out stays checked     *)
(* out, and the snapshot still holds the files and the branch of the time  *)
(* of the backup.                                                          *)
(***************************************************************************)
C38_FailureLeavesStateAndSnapshot ==
  (FailedAfterBackup /\ run.exc = "none")
    => /\ run.rollback = "none"
       /\ run.tasks.done => tree = run.tasks.after
       /\ git.branch = (IF run.tasks.done THEN <<BranchPrefix, run.goal.slug>>
                        ELSE Snapshot.branch)
       /\ Snapshot = BackupDir(TRUE,
                               Ignoring(IF run.tasks.done THEN run.tasks.before ELSE tree),
                               TRUE, run.start.git.branch, HeadSha)

\* a task of the call failed after the backup and the feature branch were
\* made: the feature branch is still checked out when the call returns
C38_Witness ==
  /\ FailedAfterBackup /\ run.tasks.done /\ result.tasks_failed > 0
  /\ git.branch /= Snapshot.branch

\* the branch could not be created after the backup was made
C38_WitnessBranch ==
  /\ FailedAfterBackup /\ ~run.tasks.done
  /\ result.message = "Failed to create backup/branch"


(***************************************************************************)
(* C39: within execute_goal create_pr_for_branch is invoked only if a      *)
(* commit was created in that call and its commit_sha was recorded in the  *)
(* result; no pull request is attempted when VALIDATE_AND_FINALIZE         *)
(* reported "No changes to commit".                                        *)
(***************************************************************************)
C39_PullRequestNeedsCommit ==
  run.pr.calls /= <<>>
    => /\ run.execution_result.commit_sha /= "none"
       /\ run.finalize /= "No changes to commit"


(***************************************************************************)
(* C40: after _rollback_changes returned True the files of the working     *)
(* tree outside the top-level .git directory and their contents are those  *)
(* of the moment _create_backup ran: what the backup copied is as it was,  *)
(* and what the copy left out (__pycache__) is neither deleted nor         *)
(* altered.                                                                *)
(***************************************************************************)
C40_RollbackIsExact ==
  (phase = "returned" /\ run.rollback = "done" /\ backup_location /= 0)
    => LET b == backups[backup_location]
       IN  (b.repo_exists /\ b.state_exists)
             => /\ tree.file = b.repo.file
                /\ tree.cache = b.repo.cache
                /\ tree.pycache = run.start.tree.pycache

====
